---- MODULE Spec2Model ----
(***************************************************************************)
(* Query layer of the toolkata content registry: the tutorial entry        *)
(* registry (pairings.ts) with its legacy pairing-only adapters, and the   *)
(* search over glossary / cheat-sheet row tables (glossary/*.ts).          *)
(*                                                                         *)
(* Spec           : a caller of the registry operations, for one slug.     *)
(* SpecTable      : a caller of the searchEntries operations, for one row  *)
(*                  sequence and one query.                                *)
(* SpecFilter     : a caller of the filterByCategory operations, for one   *)
(*                  row sequence and one category.                         *)
(* SpecCategories : getCategories() of each table module, for one table    *)
(*                  literal of that module.                                *)
(* SpecShipped    : every exported operation over the shipped literals.    *)
(* SpecCaller     : the searches and getEffectZioGlossary over the shipped *)
(*                  tables, with a caller that writes to the array it was  *)
(*                  handed.                                                *)
(* Strings that are only compared for equality (slugs, categories) are     *)
(* TLA+ strings; strings that are searched (row fields, queries) are       *)
(* sequences of one-character strings.                                     *)
(***************************************************************************)
EXTENDS Integers, Sequences, FiniteSets, TLC

VARIABLES
  toolEntries,   \* the registry array (pairings.ts, toolEntries)
  toolPairings,  \* the legacy array derived from it at module load
  jjGitGlossary,     \* the row table of the jj/git glossary module
  zioCatsGlossary,   \* the row table of the ZIO/Cats glossary module
  tmuxCheatSheet,    \* the row table of the tmux cheat-sheet module
  effectZioGlossary, \* the row table of the Effect/ZIO glossary module
  slug,          \* the string argument of the registry operations
  rows,          \* the row sequence argument of the table operations
  query,         \* the query argument of searchEntries
  categoryArg,   \* the category argument of filterByCategory
  op,            \* the operation called last ("init" before any call)
  ret,           \* what that call returned
  alias          \* which array the returned array is: "fresh" for one the
                 \* call built, else the name of the array handed out

tables == <<jjGitGlossary, zioCatsGlossary, tmuxCheatSheet, effectZioGlossary>>

vars ==
  <<toolEntries, toolPairings, tables, slug, rows, query, categoryArg, op, ret,
    alias>>

(***************************************************************************)
(* JavaScript values and array methods used by the code.                   *)
(***************************************************************************)
null == [tag |-> "null"]

undefined == [tag |-> "undefined"]

Range(s) == {s[i] : i \in 1..Len(s)}

\* a ?? b
NullishCoalesce(a, b) == IF a = null \/ a = undefined THEN b ELSE a

\* arr.find(P): the first element satisfying P, undefined when there is none.
\* hit[i] is P(arr[i]).
ArrayFind(arr, hit) ==
  IF \E i \in 1..Len(arr) : hit[i]
  THEN arr[CHOOSE i \in 1..Len(arr) : hit[i] /\ \A j \in 1..(i - 1) : ~hit[j]]
  ELSE undefined

\* arr.some(P); hit[i] is P(arr[i]).
ArraySome(arr, hit) == \E i \in 1..Len(arr) : hit[i]

\* arr.filter(P): a new array, scanning left to right and keeping what P
\* accepts; hit[i] is P(arr[i]).
\* ArrayFilterFrom filters the positions lo..hi, the left half before the
\* right half.
RECURSIVE ArrayFilterFrom(_, _, _, _)
ArrayFilterFrom(arr, hit, lo, hi) ==
  IF lo > hi THEN <<>>
  ELSE IF lo = hi THEN (IF hit[lo] THEN <<arr[lo]>> ELSE <<>>)
  ELSE ArrayFilterFrom(arr, hit, lo, (lo + hi) \div 2)
       \o ArrayFilterFrom(arr, hit, (lo + hi) \div 2 + 1, hi)

ArrayFilter(arr, hit) == ArrayFilterFrom(arr, hit, 1, Len(arr))

(***************************************************************************)
(* The registry literal.                                                   *)
(***************************************************************************)
ToolEntriesData ==
  << [ mode |-> "pairing", slug |-> "zio-cats",
       from |-> [name |-> "Cats Effect", description |-> "Cats Effect 3",
                 color |-> "#8b5cf6", icon |-> "scala"],
       to |-> [name |-> "ZIO", description |-> "Learn ZIO 2.0",
               color |-> "#0066ff", icon |-> "scala"],
       category |-> "Frameworks & Libraries", steps |-> 15,
       estimatedTime |-> "~70 min", status |-> "published",
       toUrl |-> "https://zio.dev/", language |-> "scala",
       tags |-> <<"scala", "zio", "cats-effect", "functional">> ],
     [ mode |-> "pairing", slug |-> "jj-git",
       from |-> [name |-> "git", description |-> "Distributed VCS",
                 color |-> "#f05032", icon |-> "git-branch"],
       to |-> [name |-> "jj", description |-> "jj for git experts",
               color |-> "#39d96c", icon |-> "arrows-clockwise"],
       category |-> "Version Control", steps |-> 12,
       estimatedTime |-> "~40 min", status |-> "published",
       toUrl |-> "https://github.com/jj-vcs/jj", language |-> "shell",
       tags |-> <<"git", "jj", "vcs", "version-control">> ],
     [ mode |-> "pairing", slug |-> "effect-zio",
       from |-> [name |-> "ZIO", description |-> "ZIO 2",
                 color |-> "#DC322F", icon |-> "scala"],
       to |-> [name |-> "Effect", description |-> "Effect.TS for ZIO developers",
               color |-> "#3178C6", icon |-> "typescript"],
       category |-> "Frameworks & Libraries", steps |-> 15,
       estimatedTime |-> "~75 min", status |-> "published",
       toUrl |-> "https://effect.website", language |-> "typescript",
       tags |-> <<"typescript", "effect", "zio", "scala", "functional">> ],
     [ mode |-> "tutorial", slug |-> "tmux",
       tool |-> [name |-> "tmux", description |-> "Terminal multiplexer",
                 color |-> "#1bbf4e", icon |-> "terminal"],
       category |-> "Other", steps |-> 8,
       estimatedTime |-> "~30 min", status |-> "published",
       toolUrl |-> "https://github.com/tmux/tmux", language |-> "shell",
       tags |-> <<"tmux", "terminal", "multiplexer", "shell">> ] >>

\* The closed category set of an entry, in the order the type declares it.
EntryCategories ==
  <<"Version Control", "Package Management", "Build Tools",
    "Frameworks & Libraries", "Other">>

isPairing(entry) == entry.mode = "pairing"

isTutorial(entry) == entry.mode = "tutorial"

(***************************************************************************)
(* The row table literals.  A character that cannot stand in a string here *)
(* is written by its code point ("U+0060" is the backtick).                *)
(***************************************************************************)
jjGitGlossaryData ==
  <<
    [ id |-> "basics-1", category |-> "BASICS",
      fromCommand |-> <<"g", "i", "t", " ", "i", "n", "i", "t">>,
      toCommand |-> <<"j", "j", " ", "g", "i", "t", " ", "i", "n", "i", "t">>,
      note |-> <<>> ],
    [ id |-> "basics-2", category |-> "BASICS",
      fromCommand |-> <<"g", "i", "t", " ", "c", "l", "o", "n", "e", " ", "<",
         "u", "r", "l", ">">>,
      toCommand |-> <<"j", "j", " ", "g", "i", "t", " ", "c", "l", "o", "n",
        "e", " ", "<", "u", "r", "l", ">">>,
      note |-> <<>> ],
    [ id |-> "basics-3", category |-> "BASICS",
      fromCommand |-> <<"g", "i", "t", " ", "s", "t", "a", "t", "u", "s">>,
      toCommand |-> <<"j", "j", " ", "s", "t", "a", "t", "u", "s", " ", "(",
        "j", "j", " ", "s", "t", ")">>,
      note |-> <<>> ],
    [ id |-> "basics-4", category |-> "BASICS",
      fromCommand |-> <<"g", "i", "t", " ", "l", "o", "g">>,
      toCommand |-> <<"j", "j", " ", "l", "o", "g">>,
      note |-> <<>> ],
    [ id |-> "basics-5", category |-> "BASICS",
      fromCommand |-> <<"g", "i", "t", " ", "d", "i", "f", "f">>,
      toCommand |-> <<"j", "j", " ", "d", "i", "f", "f">>,
      note |-> <<>> ],
    [ id |-> "basics-6", category |-> "BASICS",
      fromCommand |-> <<"g", "i", "t", " ", "d", "i", "f", "f", " ", "-", "-",
         "s", "t", "a", "g", "e", "d">>,
      toCommand |-> <<"j", "j", " ", "d", "i", "f", "f", " ", "-", "-", "f",
        "r", "o", "m", " ", "@", "-">>,
      note |-> <<"N", "o", " ", "s", "t", "a", "g", "i", "n", "g", " ", "a",
        "r", "e", "a", " ", "i", "n", " ", "j", "j">> ],
    [ id |-> "commits-1", category |-> "COMMITS",
      fromCommand |-> <<"g", "i", "t", " ", "a", "d", "d", " ", ".", " ", "&",
         "&", " ", "g", "i", "t", " ", "c", "o", "m", "m", "i", "t", " ", "-",
         "m", " ", "\"", "m", "s", "g", "\"">>,
      toCommand |-> <<"j", "j", " ", "d", "e", "s", "c", "r", "i", "b", "e",
        " ", "-", "m", " ", "\"", "m", "s", "g", "\"">>,
      note |-> <<"C", "h", "a", "n", "g", "e", "s", " ", "a", "u", "t", "o",
        "-", "t", "r", "a", "c", "k", "e", "d">> ],
    [ id |-> "commits-2", category |-> "COMMITS",
      fromCommand |-> <<"g", "i", "t", " ", "c", "o", "m", "m", "i", "t", " ",
         "-", "-", "a", "m", "e", "n", "d">>,
      toCommand |-> <<"j", "j", " ", "d", "e", "s", "c", "r", "i", "b", "e",
        " ", "(", "o", "n", " ", "@", ")">>,
      note |-> <<"E", "d", "i", "t", " ", "w", "o", "r", "k", "i", "n", "g",
        " ", "c", "o", "m", "m", "i", "t">> ],
    [ id |-> "commits-3", category |-> "COMMITS",
      fromCommand |-> <<"(", "s", "t", "a", "r", "t", " ", "n", "e", "w", " ",
         "w", "o", "r", "k", ")">>,
      toCommand |-> <<"j", "j", " ", "n", "e", "w">>,
      note |-> <<"C", "r", "e", "a", "t", "e", "s", " ", "n", "e", "w", " ",
        "w", "o", "r", "k", "i", "n", "g", " ", "c", "o", "m", "m", "i", "t">>
         ],
    [ id |-> "commits-4", category |-> "COMMITS",
      fromCommand |-> <<"g", "i", "t", " ", "c", "h", "e", "c", "k", "o", "u",
         "t", " ", "<", "c", "o", "m", "m", "i", "t", ">">>,
      toCommand |-> <<"j", "j", " ", "n", "e", "w", " ", "<", "c", "o", "m",
        "m", "i", "t", ">">>,
      note |-> <<"C", "r", "e", "a", "t", "e", " ", "n", "e", "w", " ", "c",
        "o", "m", "m", "i", "t", " ", "a", "t", " ", "p", "a", "r", "e", "n",
        "t">> ],
    [ id |-> "commits-5", category |-> "COMMITS",
      fromCommand |-> <<"g", "i", "t", " ", "c", "h", "e", "c", "k", "o", "u",
         "t", " ", "<", "c", "o", "m", "m", "i", "t", ">", " ", "(", "e", "d",
         "i", "t", ")">>,
      toCommand |-> <<"j", "j", " ", "e", "d", "i", "t", " ", "<", "c", "o",
        "m", "m", "i", "t", ">">>,
      note |-> <<"M", "a", "k", "e", " ", "c", "o", "m", "m", "i", "t", " ",
        "t", "h", "e", " ", "w", "o", "r", "k", "i", "n", "g", " ", "c", "o",
        "p", "y">> ],
    [ id |-> "history-1", category |-> "HISTORY",
      fromCommand |-> <<"g", "i", "t", " ", "r", "e", "b", "a", "s", "e", " ",
         "-", "i", " ", "(", "f", "i", "x", "u", "p", ")">>,
      toCommand |-> <<"j", "j", " ", "s", "q", "u", "a", "s", "h">>,
      note |-> <<"S", "q", "u", "a", "s", "h", " ", "i", "n", "t", "o", " ",
        "p", "a", "r", "e", "n", "t">> ],
    [ id |-> "history-2", category |-> "HISTORY",
      fromCommand |-> <<"g", "i", "t", " ", "r", "e", "b", "a", "s", "e", " ",
         "-", "i", " ", "(", "s", "p", "l", "i", "t", ")">>,
      toCommand |-> <<"j", "j", " ", "s", "p", "l", "i", "t">>,
      note |-> <<"I", "n", "t", "e", "r", "a", "c", "t", "i", "v", "e", " ",
        "s", "p", "l", "i", "t">> ],
    [ id |-> "history-3", category |-> "HISTORY",
      fromCommand |-> <<"g", "i", "t", " ", "r", "e", "b", "a", "s", "e", " ",
         "<", "o", "n", "t", "o", ">">>,
      toCommand |-> <<"j", "j", " ", "r", "e", "b", "a", "s", "e", " ", "-",
        "d", " ", "<", "o", "n", "t", "o", ">">>,
      note |-> <<"D", "e", "s", "c", "e", "n", "d", "a", "n", "t", "s", " ",
        "a", "u", "t", "o", "-", "r", "e", "b", "a", "s", "e">> ],
    [ id |-> "history-4", category |-> "HISTORY",
      fromCommand |-> <<"g", "i", "t", " ", "c", "h", "e", "r", "r", "y", "-",
         "p", "i", "c", "k", " ", "<", "c", "o", "m", "m", "i", "t", ">">>,
      toCommand |-> <<"j", "j", " ", "n", "e", "w", " ", "<", "p", "a", "r",
        "e", "n", "t", ">", ";", " ", "j", "j", " ", "s", "q", "u", "a", "s",
        "h", " ", "-", "-", "f", "r", "o", "m", " ", "<", "s", "o", "u", "r",
        "c", "e", ">">>,
      note |-> <<"T", "w", "o", "-", "s", "t", "e", "p", " ", "p", "r", "o",
        "c", "e", "s", "s">> ],
    [ id |-> "history-5", category |-> "HISTORY",
      fromCommand |-> <<"g", "i", "t", " ", "s", "h", "o", "w", " ", "<", "c",
         "o", "m", "m", "i", "t", ">">>,
      toCommand |-> <<"j", "j", " ", "s", "h", "o", "w", " ", "<", "c", "o",
        "m", "m", "i", "t", ">">>,
      note |-> <<>> ],
    [ id |-> "branches-1", category |-> "BRANCHES",
      fromCommand |-> <<"g", "i", "t", " ", "b", "r", "a", "n", "c", "h", " ",
         "<", "n", "a", "m", "e", ">">>,
      toCommand |-> <<"j", "j", " ", "b", "o", "o", "k", "m", "a", "r", "k",
        " ", "c", "r", "e", "a", "t", "e", " ", "<", "n", "a", "m", "e", ">"
        >>,
      note |-> <<"j", "j", " ", "u", "s", "e", "s", " ", "b", "o", "o", "k",
        "m", "a", "r", "k", "s">> ],
    [ id |-> "branches-2", category |-> "BRANCHES",
      fromCommand |-> <<"g", "i", "t", " ", "c", "h", "e", "c", "k", "o", "u",
         "t", " ", "-", "b", " ", "<", "n", "a", "m", "e", ">">>,
      toCommand |-> <<"j", "j", " ", "n", "e", "w", ";", " ", "j", "j", " ",
        "b", "o", "o", "k", "m", "a", "r", "k", " ", "c", "r", "e", "a", "t",
        "e", " ", "<", "n", "a", "m", "e", ">">>,
      note |-> <<"N", "o", " ", "c", "u", "r", "r", "e", "n", "t", " ", "b",
        "r", "a", "n", "c", "h", " ", "c", "o", "n", "c", "e", "p", "t">> ],
    [ id |-> "branches-3", category |-> "BRANCHES",
      fromCommand |-> <<"g", "i", "t", " ", "b", "r", "a", "n", "c", "h", " ",
         "-", "d", " ", "<", "n", "a", "m", "e", ">">>,
      toCommand |-> <<"j", "j", " ", "b", "o", "o", "k", "m", "a", "r", "k",
        " ", "d", "e", "l", "e", "t", "e", " ", "<", "n", "a", "m", "e", ">"
        >>,
      note |-> <<>> ],
    [ id |-> "branches-4", category |-> "BRANCHES",
      fromCommand |-> <<"g", "i", "t", " ", "b", "r", "a", "n", "c", "h", " ",
         "-", "m", " ", "<", "o", "l", "d", ">", " ", "<", "n", "e", "w", ">"
        >>,
      toCommand |-> <<"j", "j", " ", "b", "o", "o", "k", "m", "a", "r", "k",
        " ", "r", "e", "n", "a", "m", "e", " ", "<", "o", "l", "d", ">", " ",
        "<", "n", "e", "w", ">">>,
      note |-> <<>> ],
    [ id |-> "branches-5", category |-> "BRANCHES",
      fromCommand |-> <<"g", "i", "t", " ", "b", "r", "a", "n", "c", "h">>,
      toCommand |-> <<"j", "j", " ", "b", "o", "o", "k", "m", "a", "r", "k",
        " ", "l", "i", "s", "t">>,
      note |-> <<>> ],
    [ id |-> "remotes-1", category |-> "REMOTES",
      fromCommand |-> <<"g", "i", "t", " ", "f", "e", "t", "c", "h">>,
      toCommand |-> <<"j", "j", " ", "g", "i", "t", " ", "f", "e", "t", "c",
        "h">>,
      note |-> <<>> ],
    [ id |-> "remotes-2", category |-> "REMOTES",
      fromCommand |-> <<"g", "i", "t", " ", "p", "u", "s", "h">>,
      toCommand |-> <<"j", "j", " ", "g", "i", "t", " ", "p", "u", "s", "h">>,
      note |-> <<"R", "e", "q", "u", "i", "r", "e", "s", " ", "b", "o", "o",
        "k", "m", "a", "r", "k">> ],
    [ id |-> "remotes-3", category |-> "REMOTES",
      fromCommand |-> <<"g", "i", "t", " ", "p", "u", "s", "h", " ", "-", "u",
         " ", "o", "r", "i", "g", "i", "n", " ", "<", "b", "r", "a", "n", "c",
         "h", ">">>,
      toCommand |-> <<"j", "j", " ", "g", "i", "t", " ", "p", "u", "s", "h",
        " ", "-", "b", " ", "<", "b", "o", "o", "k", "m", "a", "r", "k", ">"
        >>,
      note |-> <<"j", "j", " ", "r", "e", "q", "u", "i", "r", "e", "s", " ",
        "b", "o", "o", "k", "m", "a", "r", "k", " ", "n", "a", "m", "e">> ],
    [ id |-> "remotes-4", category |-> "REMOTES",
      fromCommand |-> <<"g", "i", "t", " ", "p", "u", "l", "l">>,
      toCommand |-> <<"j", "j", " ", "g", "i", "t", " ", "f", "e", "t", "c",
        "h", ";", " ", "j", "j", " ", "r", "e", "b", "a", "s", "e", " ", "-",
        "d", " ", "<", "b", "o", "o", "k", "m", "a", "r", "k", ">", "@", "o",
        "r", "i", "g", "i", "n">>,
      note |-> <<"N", "o", " ", "p", "u", "l", "l", ",", " ", "u", "s", "e",
        " ", "f", "e", "t", "c", "h", "+", "r", "e", "b", "a", "s", "e">> ],
    [ id |-> "undo-1", category |-> "UNDO",
      fromCommand |-> <<"g", "i", "t", " ", "r", "e", "f", "l", "o", "g", ";",
         " ", "g", "i", "t", " ", "r", "e", "s", "e", "t", " ", "-", "-", "h",
         "a", "r", "d">>,
      toCommand |-> <<"j", "j", " ", "u", "n", "d", "o">>,
      note |-> <<"U", "n", "d", "o", " ", "l", "a", "s", "t", " ", "o", "p",
        "e", "r", "a", "t", "i", "o", "n">> ],
    [ id |-> "undo-2", category |-> "UNDO",
      fromCommand |-> <<"(", "s", "e", "e", " ", "o", "p", "e", "r", "a", "t",
         "i", "o", "n", " ", "h", "i", "s", "t", "o", "r", "y", ")">>,
      toCommand |-> <<"j", "j", " ", "o", "p", " ", "l", "o", "g">>,
      note |-> <<"V", "i", "e", "w", " ", "a", "l", "l", " ", "o", "p", "e",
        "r", "a", "t", "i", "o", "n", "s">> ],
    [ id |-> "undo-3", category |-> "UNDO",
      fromCommand |-> <<"g", "i", "t", " ", "r", "e", "s", "e", "t", " ", "-",
         "-", "h", "a", "r", "d", " ", "<", "c", "o", "m", "m", "i", "t", ">"
        >>,
      toCommand |-> <<"j", "j", " ", "o", "p", " ", "r", "e", "s", "t", "o",
        "r", "e", " ", "<", "o", "p", "e", "r", "a", "t", "i", "o", "n", ">"
        >>,
      note |-> <<"R", "e", "s", "t", "o", "r", "e", " ", "t", "o", " ", "a",
        "n", "y", " ", "o", "p", "e", "r", "a", "t", "i", "o", "n">> ],
    [ id |-> "undo-4", category |-> "UNDO",
      fromCommand |-> <<"g", "i", "t", " ", "r", "e", "v", "e", "r", "t", " ",
         "<", "c", "o", "m", "m", "i", "t", ">">>,
      toCommand |-> <<"j", "j", " ", "n", "e", "w", " ", "<", "c", "o", "m",
        "m", "i", "t", ">", ";", " ", "j", "j", " ", "n", "e", "w", ";", " ",
        "j", "j", " ", "d", "e", "s", "c", "r", "i", "b", "e", " ", "-", "m",
        " ", "\"", "R", "e", "v", "e", "r", "t", "\"">>,
      note |-> <<"M", "a", "n", "u", "a", "l", " ", "r", "e", "v", "e", "r",
        "t", " ", "p", "r", "o", "c", "e", "s", "s">> ],
    [ id |-> "conflicts-1", category |-> "CONFLICTS",
      fromCommand |-> <<"g", "i", "t", " ", "s", "t", "a", "t", "u", "s", " ",
         "(", "s", "e", "e", " ", "c", "o", "n", "f", "l", "i", "c", "t", "s",
         ")">>,
      toCommand |-> <<"j", "j", " ", "s", "t", "a", "t", "u", "s">>,
      note |-> <<"C", "o", "n", "f", "l", "i", "c", "t", "s", " ", "s", "t",
        "o", "r", "e", "d", " ", "i", "n", " ", "c", "o", "m", "m", "i", "t">>
         ],
    [ id |-> "conflicts-2", category |-> "CONFLICTS",
      fromCommand |-> <<"g", "i", "t", " ", "a", "d", "d", " ", "<", "r", "e",
         "s", "o", "l", "v", "e", "d", ">">>,
      toCommand |-> <<"j", "j", " ", "r", "e", "s", "o", "l", "v", "e">>,
      note |-> <<"M", "a", "r", "k", " ", "c", "o", "n", "f", "l", "i", "c",
        "t", " ", "r", "e", "s", "o", "l", "v", "e", "d">> ],
    [ id |-> "conflicts-3", category |-> "CONFLICTS",
      fromCommand |-> <<"(", "v", "i", "e", "w", " ", "c", "o", "n", "f", "l",
         "i", "c", "t", "s", ")">>,
      toCommand |-> <<"j", "j", " ", "r", "e", "s", "o", "l", "v", "e", " ",
        "-", "-", "l", "i", "s", "t">>,
      note |-> <<"L", "i", "s", "t", " ", "a", "l", "l", " ", "c", "o", "n",
        "f", "l", "i", "c", "t", "s">> ],
    [ id |-> "advanced-1", category |-> "ADVANCED",
      fromCommand |-> <<"g", "i", "t", " ", "l", "o", "g", " ", "-", "-", "g",
         "r", "a", "p", "h", " ", "-", "-", "o", "n", "e", "l", "i", "n", "e"
        >>,
      toCommand |-> <<"j", "j", " ", "l", "o", "g", " ", "-", "-", "g", "r",
        "a", "p", "h">>,
      note |-> <<>> ],
    [ id |-> "advanced-2", category |-> "ADVANCED",
      fromCommand |-> <<"(", "f", "i", "n", "d", " ", "c", "o", "m", "m", "i",
         "t", "s", " ", "t", "o", " ", "r", "e", "b", "a", "s", "e", ")">>,
      toCommand |-> <<"j", "j", " ", "l", "o", "g", " ", "-", "r", " ", "'",
        "m", "a", "i", "n", ".", ".", "@", "'">>,
      note |-> <<"R", "e", "v", "s", "e", "t", ":", " ", "c", "o", "m", "m",
        "i", "t", "s", " ", "s", "i", "n", "c", "e", " ", "m", "a", "i", "n">>
         ],
    [ id |-> "advanced-3", category |-> "ADVANCED",
      fromCommand |-> <<"g", "i", "t", " ", "d", "e", "s", "c", "r", "i", "b",
         "e">>,
      toCommand |-> <<"j", "j", " ", "d", "e", "s", "c", "r", "i", "b", "e">>,
      note |-> <<"S", "h", "o", "w", " ", "f", "u", "l", "l", " ", "c", "h",
        "a", "n", "g", "e", " ", "i", "d">> ]
  >>

zioCatsGlossaryData ==
  <<
    [ id |-> "basics-1", category |-> "BASICS",
      fromCommand |-> <<"Z", "I", "O", ".", "s", "u", "c", "c", "e", "e", "d",
         "(", "a", ")">>,
      toCommand |-> <<"I", "O", ".", "p", "u", "r", "e", "(", "a", ")">>,
      note |-> <<"L", "i", "f", "t", " ", "p", "u", "r", "e", " ", "v", "a",
        "l", "u", "e", " ", "i", "n", "t", "o", " ", "e", "f", "f", "e", "c",
        "t">> ],
    [ id |-> "basics-2", category |-> "BASICS",
      fromCommand |-> <<"Z", "I", "O", ".", "f", "a", "i", "l", "(", "e", ")"
        >>,
      toCommand |-> <<"I", "O", ".", "r", "a", "i", "s", "e", "E", "r", "r",
        "o", "r", "(", "e", ")">>,
      note |-> <<"L", "i", "f", "t", " ", "e", "r", "r", "o", "r", " ", "i",
        "n", "t", "o", " ", "e", "f", "f", "e", "c", "t">> ],
    [ id |-> "basics-3", category |-> "BASICS",
      fromCommand |-> <<"Z", "I", "O", ".", "e", "f", "f", "e", "c", "t", "(",
         "t", "h", "u", "n", "k", ")">>,
      toCommand |-> <<"I", "O", ".", "d", "e", "l", "a", "y", "(", "t", "h",
        "u", "n", "k", ")">>,
      note |-> <<"S", "u", "s", "p", "e", "n", "d", " ", "s", "i", "d", "e",
        " ", "e", "f", "f", "e", "c", "t">> ],
    [ id |-> "basics-4", category |-> "BASICS",
      fromCommand |-> <<"Z", "I", "O", ".", "a", "t", "t", "e", "m", "p", "t",
         "(", "t", "h", "u", "n", "k", ")">>,
      toCommand |-> <<"I", "O", ".", "b", "l", "o", "c", "k", "i", "n", "g",
        "(", "t", "h", "u", "n", "k", ")">>,
      note |-> <<"M", "a", "y", " ", "t", "h", "r", "o", "w", ",", " ", "b",
        "l", "o", "c", "k", "i", "n", "g">> ],
    [ id |-> "basics-5", category |-> "BASICS",
      fromCommand |-> <<"U", "I", "O", "[", "A", "]">>,
      toCommand |-> <<"I", "O", "[", "A", "]">>,
      note |-> <<"N", "o", " ", "e", "r", "r", "o", "r", " ", "t", "y", "p",
        "e", " ", "(", "N", "o", "t", "h", "i", "n", "g", ")">> ],
    [ id |-> "basics-6", category |-> "BASICS",
      fromCommand |-> <<"Z", "I", "O", ".", "f", "r", "o", "m", "E", "i", "t",
         "h", "e", "r", "(", "e", ")">>,
      toCommand |-> <<"I", "O", ".", "f", "r", "o", "m", "E", "i", "t", "h",
        "e", "r", "(", "e", ")">>,
      note |-> <<"F", "r", "o", "m", " ", "E", "i", "t", "h", "e", "r">> ],
    [ id |-> "basics-7", category |-> "BASICS",
      fromCommand |-> <<"Z", "I", "O", ".", "f", "r", "o", "m", "O", "p", "t",
         "i", "o", "n", "(", "o", ")">>,
      toCommand |-> <<"I", "O", ".", "f", "r", "o", "m", "O", "p", "t", "i",
        "o", "n", "(", "o", ")">>,
      note |-> <<"F", "r", "o", "m", " ", "O", "p", "t", "i", "o", "n">> ],
    [ id |-> "errors-1", category |-> "ERRORS",
      fromCommand |-> <<"e", "f", "f", "e", "c", "t", ".", "c", "a", "t", "c",
         "h", "A", "l", "l", "(", "f", ")">>,
      toCommand |-> <<"e", "f", "f", "e", "c", "t", ".", "h", "a", "n", "d",
        "l", "e", "E", "r", "r", "o", "r", "W", "i", "t", "h", "(", "f", ")"
        >>,
      note |-> <<"R", "e", "c", "o", "v", "e", "r", " ", "f", "r", "o", "m",
        " ", "e", "r", "r", "o", "r">> ],
    [ id |-> "errors-2", category |-> "ERRORS",
      fromCommand |-> <<"e", "f", "f", "e", "c", "t", ".", "o", "r", "E", "l",
         "s", "e", "(", "f", "a", "l", "l", "b", "a", "c", "k", ")">>,
      toCommand |-> <<"e", "f", "f", "e", "c", "t", ".", "h", "a", "n", "d",
        "l", "e", "E", "r", "r", "o", "r", "W", "i", "t", "h", "(", "_", " ",
        "=", ">", " ", "f", "a", "l", "l", "b", "a", "c", "k", ")">>,
      note |-> <<"F", "a", "l", "l", "b", "a", "c", "k", " ", "o", "n", " ",
        "e", "r", "r", "o", "r">> ],
    [ id |-> "errors-3", category |-> "ERRORS",
      fromCommand |-> <<"e", "f", "f", "e", "c", "t", ".", "m", "a", "p", "E",
         "r", "r", "o", "r", "(", "f", ")">>,
      toCommand |-> <<"e", "f", "f", "e", "c", "t", ".", "a", "d", "a", "p",
        "t", "E", "r", "r", "o", "r", "(", "f", ")">>,
      note |-> <<"T", "r", "a", "n", "s", "f", "o", "r", "m", " ", "e", "r",
        "r", "o", "r">> ],
    [ id |-> "errors-4", category |-> "ERRORS",
      fromCommand |-> <<"e", "f", "f", "e", "c", "t", ".", "r", "e", "t", "r",
         "y", "(", "s", "c", "h", "e", "d", "u", "l", "e", ")">>,
      toCommand |-> <<"e", "f", "f", "e", "c", "t", ".", "t", "i", "m", "e",
        "o", "u", "t", " ", "+", " ", "h", "a", "n", "d", "l", "e", "E", "r",
        "r", "o", "r">>,
      note |-> <<"M", "a", "n", "u", "a", "l", " ", "r", "e", "t", "r", "i",
        "e", "s", " ", "i", "n", " ", "C", "E">> ],
    [ id |-> "errors-5", category |-> "ERRORS",
      fromCommand |-> <<"Z", "I", "O", ".", "c", "o", "l", "l", "e", "c", "t",
         "A", "l", "l", "(", "l", "i", "s", "t", ")">>,
      toCommand |-> <<"l", "i", "s", "t", ".", "s", "e", "q", "u", "e", "n",
        "c", "e">>,
      note |-> <<"S", "e", "q", "u", "e", "n", "c", "e", " ", "e", "f", "f",
        "e", "c", "t", "s">> ],
    [ id |-> "deps-1", category |-> "DEPENDENCIES",
      fromCommand |-> <<"Z", "L", "a", "y", "e", "r", ".", "s", "u", "c", "c",
         "e", "e", "d", "(", "s", "e", "r", "v", "i", "c", "e", ")">>,
      toCommand |-> <<"R", "e", "s", "o", "u", "r", "c", "e", ".", "p", "u",
        "r", "e", "(", "s", "e", "r", "v", "i", "c", "e", ")">>,
      note |-> <<"C", "r", "e", "a", "t", "e", " ", "d", "e", "p", "e", "n",
        "d", "e", "n", "c", "y">> ],
    [ id |-> "deps-2", category |-> "DEPENDENCIES",
      fromCommand |-> <<"e", "f", "f", "e", "c", "t", ".", "p", "r", "o", "v",
         "i", "d", "e", "L", "a", "y", "e", "r", "(", "l", "a", "y", "e", "r",
         ")">>,
      toCommand |-> <<"K", "l", "e", "i", "s", "l", "i", ".", "r", "u", "n",
        "(", "e", "f", "f", "e", "c", "t", ")", "(", "s", "e", "r", "v", "i",
        "c", "e", ")">>,
      note |-> <<"I", "n", "j", "e", "c", "t", " ", "d", "e", "p", "e", "n",
        "d", "e", "n", "c", "y">> ],
    [ id |-> "deps-3", category |-> "DEPENDENCIES",
      fromCommand |-> <<"Z", "I", "O", ".", "s", "e", "r", "v", "i", "c", "e",
         "[", "A", "]">>,
      toCommand |-> <<"I", "O", ".", "a", "s", "k", "[", "A", "]">>,
      note |-> <<"G", "e", "t", " ", "f", "r", "o", "m", " ", "e", "n", "v",
        " ", "(", "K", "l", "e", "i", "s", "l", "i", ")">> ],
    [ id |-> "deps-4", category |-> "DEPENDENCIES",
      fromCommand |-> <<"l", "a", "y", "e", "r", "1", " ", "+", "+", " ", "l",
         "a", "y", "e", "r", "2">>,
      toCommand |-> <<"R", "e", "s", "o", "u", "r", "c", "e", ".", "f", "o",
        "r", "P", "r", "o", "d", "u", "c", "t", "N">>,
      note |-> <<"C", "o", "m", "p", "o", "s", "e", " ", "d", "e", "p", "e",
        "n", "d", "e", "n", "c", "i", "e", "s">> ],
    [ id |-> "deps-5", category |-> "DEPENDENCIES",
      fromCommand |-> <<"Z", "M", "a", "n", "a", "g", "e", "d", ".", "a", "c",
         "q", "u", "i", "r", "e", "R", "e", "l", "e", "a", "s", "e">>,
      toCommand |-> <<"R", "e", "s", "o", "u", "r", "c", "e", ".", "m", "a",
        "k", "e">>,
      note |-> <<"R", "e", "s", "o", "u", "r", "c", "e", " ", "l", "i", "f",
        "e", "c", "y", "c", "l", "e">> ],
    [ id |-> "concurrency-1", category |-> "CONCURRENCY",
      fromCommand |-> <<"e", "f", "f", "e", "c", "t", ".", "f", "o", "r", "k"
        >>,
      toCommand |-> <<"e", "f", "f", "e", "c", "t", ".", "s", "t", "a", "r",
        "t">>,
      note |-> <<"S", "p", "a", "w", "n", " ", "f", "i", "b", "e", "r">> ],
    [ id |-> "concurrency-2", category |-> "CONCURRENCY",
      fromCommand |-> <<"f", "i", "b", "e", "r", ".", "j", "o", "i", "n">>,
      toCommand |-> <<"f", "i", "b", "e", "r", ".", "j", "o", "i", "n">>,
      note |-> <<"A", "w", "a", "i", "t", " ", "f", "i", "b", "e", "r", " ",
        "r", "e", "s", "u", "l", "t">> ],
    [ id |-> "concurrency-3", category |-> "CONCURRENCY",
      fromCommand |-> <<"e", "f", "f", "e", "c", "t", "1", ".", "r", "a", "c",
         "e", "(", "e", "f", "f", "e", "c", "t", "2", ")">>,
      toCommand |-> <<"e", "f", "f", "e", "c", "t", "1", ".", "r", "a", "c",
        "e", "(", "e", "f", "f", "e", "c", "t", "2", ")">>,
      note |-> <<"F", "i", "r", "s", "t", " ", "t", "o", " ", "f", "i", "n",
        "i", "s", "h", " ", "w", "i", "n", "s">> ],
    [ id |-> "concurrency-4", category |-> "CONCURRENCY",
      fromCommand |-> <<"e", "f", "f", "e", "c", "t", ".", "t", "i", "m", "e",
         "o", "u", "t", "(", "d", "u", "r", "a", "t", "i", "o", "n", ")">>,
      toCommand |-> <<"e", "f", "f", "e", "c", "t", ".", "t", "i", "m", "e",
        "o", "u", "t", "(", "d", "u", "r", "a", "t", "i", "o", "n", ")">>,
      note |-> <<"C", "a", "n", "c", "e", "l", " ", "i", "f", " ", "t", "o",
        "o", " ", "s", "l", "o", "w">> ],
    [ id |-> "concurrency-5", category |-> "CONCURRENCY",
      fromCommand |-> <<"f", "i", "b", "e", "r", ".", "i", "n", "t", "e", "r",
         "r", "u", "p", "t">>,
      toCommand |-> <<"f", "i", "b", "e", "r", ".", "c", "a", "n", "c", "e",
        "l">>,
      note |-> <<"C", "a", "n", "c", "e", "l", " ", "f", "i", "b", "e", "r">>
         ],
    [ id |-> "concurrency-6", category |-> "CONCURRENCY",
      fromCommand |-> <<"Z", "I", "O", ".", "s", "u", "p", "e", "r", "v", "i",
         "s", "e", "d">>,
      toCommand |-> <<"R", "e", "s", "o", "u", "r", "c", "e", " ", "w", "i",
        "t", "h", " ", "c", "a", "n", "c", "e", "l">>,
      note |-> <<"M", "a", "n", "u", "a", "l", " ", "s", "u", "p", "e", "r",
        "v", "i", "s", "i", "o", "n">> ],
    [ id |-> "concurrency-7", category |-> "CONCURRENCY",
      fromCommand |-> <<"Z", "I", "O", ".", "c", "o", "l", "l", "e", "c", "t",
         "A", "l", "l", "P", "a", "r", "(", "l", "i", "s", "t", ")">>,
      toCommand |-> <<"l", "i", "s", "t", ".", "p", "a", "r", "S", "e", "q",
        "u", "e", "n", "c", "e">>,
      note |-> <<"P", "a", "r", "a", "l", "l", "e", "l", " ", "e", "x", "e",
        "c", "u", "t", "i", "o", "n">> ],
    [ id |-> "streaming-1", category |-> "STREAMING",
      fromCommand |-> <<"Z", "S", "t", "r", "e", "a", "m", "(", "v", "a", "l",
         "u", "e", "s", ")">>,
      toCommand |-> <<"S", "t", "r", "e", "a", "m", "(", "v", "a", "l", "u",
        "e", "s", ")">>,
      note |-> <<"C", "r", "e", "a", "t", "e", " ", "s", "t", "r", "e", "a",
        "m">> ],
    [ id |-> "streaming-2", category |-> "STREAMING",
      fromCommand |-> <<"s", "t", "r", "e", "a", "m", ".", "m", "a", "p", "(",
         "f", ")">>,
      toCommand |-> <<"s", "t", "r", "e", "a", "m", ".", "m", "a", "p", "(",
        "f", ")">>,
      note |-> <<"T", "r", "a", "n", "s", "f", "o", "r", "m", " ", "e", "l",
        "e", "m", "e", "n", "t", "s">> ],
    [ id |-> "streaming-3", category |-> "STREAMING",
      fromCommand |-> <<"s", "t", "r", "e", "a", "m", ".", "f", "i", "l", "t",
         "e", "r", "(", "p", ")">>,
      toCommand |-> <<"s", "t", "r", "e", "a", "m", ".", "f", "i", "l", "t",
        "e", "r", "(", "p", ")">>,
      note |-> <<"F", "i", "l", "t", "e", "r", " ", "e", "l", "e", "m", "e",
        "n", "t", "s">> ],
    [ id |-> "streaming-4", category |-> "STREAMING",
      fromCommand |-> <<"s", "t", "r", "e", "a", "m", ".", "r", "u", "n", "C",
         "o", "l", "l", "e", "c", "t">>,
      toCommand |-> <<"s", "t", "r", "e", "a", "m", ".", "c", "o", "m", "p",
        "i", "l", "e", ".", "t", "o", "L", "i", "s", "t">>,
      note |-> <<"C", "o", "l", "l", "e", "c", "t", " ", "t", "o", " ", "l",
        "i", "s", "t">> ],
    [ id |-> "streaming-5", category |-> "STREAMING",
      fromCommand |-> <<"s", "t", "r", "e", "a", "m", ".", "m", "a", "p", "Z",
         "I", "O", "(", "f", ")">>,
      toCommand |-> <<"s", "t", "r", "e", "a", "m", ".", "e", "v", "a", "l",
        "M", "a", "p", "(", "f", ")">>,
      note |-> <<"E", "f", "f", "e", "c", "t", "f", "u", "l", " ", "m", "a",
        "p">> ],
    [ id |-> "streaming-6", category |-> "STREAMING",
      fromCommand |-> <<"s", "t", "r", "e", "a", "m", ".", "m", "e", "r", "g",
         "e", "(", "o", "t", "h", "e", "r", ")">>,
      toCommand |-> <<"s", "t", "r", "e", "a", "m", ".", "m", "e", "r", "g",
        "e", "(", "o", "t", "h", "e", "r", ")">>,
      note |-> <<"M", "e", "r", "g", "e", " ", "s", "t", "r", "e", "a", "m",
        "s">> ],
    [ id |-> "streaming-7", category |-> "STREAMING",
      fromCommand |-> <<"Z", "S", "t", "r", "e", "a", "m", ".", "f", "r", "o",
         "m", "P", "a", "t", "h", "(", "p", "a", "t", "h", ")">>,
      toCommand |-> <<"F", "i", "l", "e", "s", "[", "I", "O", "]", ".", "r",
        "e", "a", "d", "A", "l", "l", "(", "p", "a", "t", "h", ")">>,
      note |-> <<"F", "i", "l", "e", " ", "s", "t", "r", "e", "a", "m", "i",
        "n", "g", " ", "(", "f", "s", "2", ")">> ],
    [ id |-> "stm-1", category |-> "STM",
      fromCommand |-> <<"T", "R", "e", "f", ".", "m", "a", "k", "e", "(", "a",
         ")">>,
      toCommand |-> <<"T", "R", "e", "f", ".", "o", "f", "[", "F", "]", "(",
        "a", ")">>,
      note |-> <<"C", "r", "e", "a", "t", "e", " ", "t", "r", "a", "n", "s",
        "a", "c", "t", "i", "o", "n", "a", "l", " ", "r", "e", "f", "e", "r",
        "e", "n", "c", "e">> ],
    [ id |-> "stm-2", category |-> "STM",
      fromCommand |-> <<"S", "T", "M", ".", "s", "u", "c", "c", "e", "e", "d",
         "(", "a", ")">>,
      toCommand |-> <<"S", "T", "M", ".", "p", "u", "r", "e", "(", "a", ")">>,
      note |-> <<"P", "u", "r", "e", " ", "S", "T", "M", " ", "v", "a", "l",
        "u", "e">> ],
    [ id |-> "stm-3", category |-> "STM",
      fromCommand |-> <<"S", "T", "M", ".", "r", "e", "t", "r", "y">>,
      toCommand |-> <<"S", "T", "M", ".", "r", "e", "t", "r", "y">>,
      note |-> <<"R", "e", "t", "r", "y", " ", "t", "r", "a", "n", "s", "a",
        "c", "t", "i", "o", "n", " ", "o", "n", " ", "T", "R", "e", "f", " ",
        "c", "h", "a", "n", "g", "e">> ],
    [ id |-> "stm-4", category |-> "STM",
      fromCommand |-> <<"t", "r", "a", "n", "s", "a", "c", "t", "i", "o", "n",
         ".", "c", "o", "m", "m", "i", "t">>,
      toCommand |-> <<"t", "r", "a", "n", "s", "a", "c", "t", "i", "o", "n",
        ".", "c", "o", "m", "m", "i", "t", "[", "F", "]">>,
      note |-> <<"C", "o", "m", "m", "i", "t", " ", "S", "T", "M", " ", "t",
        "o", " ", "e", "f", "f", "e", "c", "t">> ],
    [ id |-> "stm-5", category |-> "STM",
      fromCommand |-> <<"T", "M", "a", "p", ".", "e", "m", "p", "t", "y", "[",
         "K", ",", " ", "V", "]">>,
      toCommand |-> <<"T", "M", "a", "p", ".", "e", "m", "p", "t", "y", "[",
        "F", ",", " ", "K", ",", " ", "V", "]">>,
      note |-> <<"T", "r", "a", "n", "s", "a", "c", "t", "i", "o", "n", "a",
        "l", " ", "h", "a", "s", "h", " ", "m", "a", "p">> ],
    [ id |-> "stm-6", category |-> "STM",
      fromCommand |-> <<"T", "Q", "u", "e", "u", "e", ".", "u", "n", "b", "o",
         "u", "n", "d", "e", "d", "[", "A", "]">>,
      toCommand |-> <<"T", "Q", "u", "e", "u", "e", ".", "u", "n", "b", "o",
        "u", "n", "d", "e", "d", "[", "F", ",", " ", "A", "]">>,
      note |-> <<"T", "r", "a", "n", "s", "a", "c", "t", "i", "o", "n", "a",
        "l", " ", "q", "u", "e", "u", "e">> ],
    [ id |-> "config-1", category |-> "CONFIG",
      fromCommand |-> <<"Z", "I", "O", ".", "c", "o", "n", "f", "i", "g", "[",
         "A", "]">>,
      toCommand |-> <<"C", "o", "n", "f", "i", "g", "V", "a", "l", "u", "e",
        "[", "F", ",", " ", "A", "]", ".", "l", "o", "a", "d", "[", "F", "]"
        >>,
      note |-> <<"L", "o", "a", "d", " ", "c", "o", "n", "f", "i", "g", "u",
        "r", "a", "t", "i", "o", "n">> ],
    [ id |-> "config-2", category |-> "CONFIG",
      fromCommand |-> <<"C", "o", "n", "f", "i", "g", ".", "s", "t", "r", "i",
         "n", "g">>,
      toCommand |-> <<"e", "n", "v", "(", "k", "e", "y", ")", ".", "a", "s",
        "[", "S", "t", "r", "i", "n", "g", "]">>,
      note |-> <<"S", "t", "r", "i", "n", "g", " ", "c", "o", "n", "f", "i",
        "g", "u", "r", "a", "t", "i", "o", "n">> ],
    [ id |-> "config-3", category |-> "CONFIG",
      fromCommand |-> <<"C", "o", "n", "f", "i", "g", ".", "i", "n", "t">>,
      toCommand |-> <<"e", "n", "v", "(", "k", "e", "y", ")", ".", "a", "s",
        "[", "I", "n", "t", "]">>,
      note |-> <<"I", "n", "t", "e", "g", "e", "r", " ", "c", "o", "n", "f",
        "i", "g", "u", "r", "a", "t", "i", "o", "n">> ],
    [ id |-> "config-4", category |-> "CONFIG",
      fromCommand |-> <<"C", "o", "n", "f", "i", "g", "P", "r", "o", "v", "i",
         "d", "e", "r", ".", "e", "n", "v", "P", "r", "o", "v", "i", "d", "e",
         "r">>,
      toCommand |-> <<"e", "n", "v", "(", "k", "e", "y", ")", " ", "d", "e",
        "f", "a", "u", "l", "t">>,
      note |-> <<"E", "n", "v", "i", "r", "o", "n", "m", "e", "n", "t", " ",
        "v", "a", "r", "i", "a", "b", "l", "e", " ", "s", "o", "u", "r", "c",
        "e">> ],
    [ id |-> "config-5", category |-> "CONFIG",
      fromCommand |-> <<"d", "e", "r", "i", "v", "e", "C", "o", "n", "f", "i",
         "g", "[", "A", "]">>,
      toCommand |-> <<"p", "a", "r", "M", "a", "p", "N", "(", "A", ")">>,
      note |-> <<"A", "u", "t", "o", "m", "a", "t", "i", "c", " ", "c", "o",
        "n", "f", "i", "g", " ", "d", "e", "r", "i", "v", "a", "t", "i", "o",
        "n">> ],
    [ id |-> "config-6", category |-> "CONFIG",
      fromCommand |-> <<"c", "f", "g", ".", "w", "i", "t", "h", "D", "e", "f",
         "a", "u", "l", "t", "(", "v", "a", "l", "u", "e", ")">>,
      toCommand |-> <<"C", "o", "n", "f", "i", "g", "V", "a", "l", "u", "e",
        ".", "d", "e", "f", "a", "u", "l", "t", "(", "v", "a", "l", "u", "e",
        ")">>,
      note |-> <<"D", "e", "f", "a", "u", "l", "t", " ", "v", "a", "l", "u",
        "e", " ", "f", "o", "r", " ", "c", "o", "n", "f", "i", "g">> ],
    [ id |-> "config-7", category |-> "CONFIG",
      fromCommand |-> <<"c", "f", "g", ".", "v", "a", "l", "i", "d", "a", "t",
         "e", "(", "m", "s", "g", ")", "(", "p", ")">>,
      toCommand |-> <<"C", "u", "s", "t", "o", "m", " ", "C", "o", "n", "f",
        "i", "g", "D", "e", "c", "o", "d", "e", "r">>,
      note |-> <<"C", "o", "n", "f", "i", "g", "u", "r", "a", "t", "i", "o",
        "n", " ", "v", "a", "l", "i", "d", "a", "t", "i", "o", "n">> ],
    [ id |-> "http-1", category |-> "HTTP",
      fromCommand |-> <<"H", "t", "t", "p", ".", "c", "o", "l", "l", "e", "c",
         "t", "[", "R", "e", "q", "u", "e", "s", "t", "]", " ", "{", " ", "c",
         "a", "s", "e", " ", ".", ".", ".", " ", "}">>,
      toCommand |-> <<"H", "t", "t", "p", "R", "o", "u", "t", "e", "s", ".",
        "o", "f", "[", "I", "O", "]", " ", "{", " ", "c", "a", "s", "e", " ",
        ".", ".", ".", " ", "}">>,
      note |-> <<"D", "e", "f", "i", "n", "e", " ", "H", "T", "T", "P", " ",
        "r", "o", "u", "t", "e", "s">> ],
    [ id |-> "http-2", category |-> "HTTP",
      fromCommand |-> <<"R", "e", "s", "p", "o", "n", "s", "e", ".", "t", "e",
         "x", "t", "(", "b", "o", "d", "y", ")">>,
      toCommand |-> <<"O", "k", "(", "b", "o", "d", "y", ")">>,
      note |-> <<"T", "e", "x", "t", " ", "r", "e", "s", "p", "o", "n", "s",
        "e">> ],
    [ id |-> "http-3", category |-> "HTTP",
      fromCommand |-> <<"C", "l", "i", "e", "n", "t", ".", "r", "e", "q", "u",
         "e", "s", "t", "(", "u", "r", "l", ")">>,
      toCommand |-> <<"c", "l", "i", "e", "n", "t", ".", "e", "x", "p", "e",
        "c", "t", "[", "S", "t", "r", "i", "n", "g", "]", "(", "u", "r", "i",
        ")">>,
      note |-> <<"H", "T", "T", "P", " ", "G", "E", "T", " ", "r", "e", "q",
        "u", "e", "s", "t">> ],
    [ id |-> "http-4", category |-> "HTTP",
      fromCommand |-> <<"S", "e", "r", "v", "e", "r", ".", "s", "e", "r", "v",
         "e", "(", "a", "p", "p", ")">>,
      toCommand |-> <<"B", "l", "a", "z", "e", "S", "e", "r", "v", "e", "r",
        "B", "u", "i", "l", "d", "e", "r", "[", "I", "O", "]", ".", "s", "e",
        "r", "v", "e">>,
      note |-> <<"S", "t", "a", "r", "t", " ", "H", "T", "T", "P", " ", "s",
        "e", "r", "v", "e", "r">> ],
    [ id |-> "http-5", category |-> "HTTP",
      fromCommand |-> <<"M", "e", "t", "h", "o", "d", ".", "G", "E", "T", " ",
         "-", ">", " ", "R", "o", "o", "t", " ", "/", " ", "\"", "p", "a",
        "t", "h", "\"">>,
      toCommand |-> <<"G", "E", "T", " ", "-", ">", " ", "R", "o", "o", "t",
        " ", "/", " ", "\"", "p", "a", "t", "h", "\"">>,
      note |-> <<"G", "E", "T", " ", "r", "o", "u", "t", "e", " ", "p", "a",
        "t", "t", "e", "r", "n">> ],
    [ id |-> "http-6", category |-> "HTTP",
      fromCommand |-> <<"r", "e", "q", ".", "b", "o", "d", "y", ".", "a", "s",
         "J", "s", "o", "n", "[", "A", "]">>,
      toCommand |-> <<"r", "e", "q", ".", "a", "s", "[", "A", "]">>,
      note |-> <<"P", "a", "r", "s", "e", " ", "J", "S", "O", "N", " ", "b",
        "o", "d", "y">> ],
    [ id |-> "http-7", category |-> "HTTP",
      fromCommand |-> <<"R", "e", "s", "p", "o", "n", "s", "e", "(", "s", "t",
         "a", "t", "u", "s", ",", " ", "b", "o", "d", "y", " ", "=", " ", "B",
         "o", "d", "y", ".", "f", "r", "o", "m", "S", "t", "r", "e", "a", "m",
         ")">>,
      toCommand |-> <<"O", "k", "(", "s", "t", "r", "e", "a", "m", ")">>,
      note |-> <<"S", "t", "r", "e", "a", "m", "i", "n", "g", " ", "r", "e",
        "s", "p", "o", "n", "s", "e">> ],
    [ id |-> "database-1", category |-> "DATABASE",
      fromCommand |-> <<"q", "u", "e", "r", "y", "(", "s", "q", "l", ")", ".",
         "a", "s", "[", "A", "]">>,
      toCommand |-> <<"s", "q", "l", "\"", ".", ".", ".", "\"", ".", "q", "u",
         "e", "r", "y", "[", "A", "]">>,
      note |-> <<"E", "x", "e", "c", "u", "t", "e", " ", "S", "E", "L", "E",
        "C", "T", " ", "q", "u", "e", "r", "y">> ],
    [ id |-> "database-2", category |-> "DATABASE",
      fromCommand |-> <<"e", "x", "e", "c", "u", "t", "e", "(", "s", "q", "l",
         ")", ".", "p", "a", "r", "a", "m", "(", "v", ")">>,
      toCommand |-> <<"s", "q", "l", "\"", ".", ".", ".", "$", "v", "\"">>,
      note |-> <<"P", "a", "r", "a", "m", "e", "t", "e", "r", "i", "z", "e",
        "d", " ", "q", "u", "e", "r", "y">> ],
    [ id |-> "database-3", category |-> "DATABASE",
      fromCommand |-> <<"q", "u", "e", "r", "y", "(", ".", ".", ".", ")", ".",
         "t", "r", "a", "n", "s", "a", "c", "t", "i", "o", "n">>,
      toCommand |-> <<"s", "q", "l", "\"", ".", ".", ".", "\"", ".", "t", "r",
         "a", "n", "s", "a", "c", "t", "(", "x", "a", ")">>,
      note |-> <<"E", "x", "e", "c", "u", "t", "e", " ", "t", "r", "a", "n",
        "s", "a", "c", "t", "i", "o", "n">> ],
    [ id |-> "database-4", category |-> "DATABASE",
      fromCommand |-> <<"Z", "C", "o", "n", "n", "e", "c", "t", "i", "o", "n",
         "P", "o", "o", "l", ".", "h", "2", "(", "u", "r", "l", ",", " ", "u",
         "s", "e", "r", ",", " ", "p", "a", "s", "s", ")">>,
      toCommand |-> <<"T", "r", "a", "n", "s", "a", "c", "t", "o", "r", ".",
        "f", "r", "o", "m", "D", "a", "t", "a", "S", "o", "u", "r", "c", "e"
        >>,
      note |-> <<"C", "o", "n", "n", "e", "c", "t", "i", "o", "n", " ", "p",
        "o", "o", "l">> ],
    [ id |-> "database-5", category |-> "DATABASE",
      fromCommand |-> <<"e", "x", "e", "c", "u", "t", "e", "(", "s", "q", "l",
         ")", ".", "r", "e", "t", "u", "r", "n", "i", "n", "g">>,
      toCommand |-> <<".", "u", "p", "d", "a", "t", "e", ".", "w", "i", "t",
        "h", "U", "n", "i", "q", "u", "e", "G", "e", "n", "e", "r", "a", "t",
        "e", "d", "K", "e", "y", "s">>,
      note |-> <<"I", "n", "s", "e", "r", "t", " ", "a", "n", "d", " ", "r",
        "e", "t", "u", "r", "n", " ", "I", "D">> ],
    [ id |-> "database-6", category |-> "DATABASE",
      fromCommand |-> <<"s", "q", "l", " ", "+", "+", " ", "w", "h", "e", "r",
         "e">>,
      toCommand |-> <<"F", "r", "a", "g", "m", "e", "n", "t", " ", "+", "+",
        " ", "F", "r", "a", "g", "m", "e", "n", "t">>,
      note |-> <<"Q", "u", "e", "r", "y", " ", "c", "o", "m", "p", "o", "s",
        "i", "t", "i", "o", "n">> ],
    [ id |-> "runtime-1", category |-> "RUNTIME",
      fromCommand |-> <<"o", "b", "j", "e", "c", "t", " ", "M", "a", "i", "n",
         " ", "e", "x", "t", "e", "n", "d", "s", " ", "Z", "I", "O", "A", "p",
         "p", "D", "e", "f", "a", "u", "l", "t">>,
      toCommand |-> <<"o", "b", "j", "e", "c", "t", " ", "M", "a", "i", "n",
        " ", "e", "x", "t", "e", "n", "d", "s", " ", "I", "O", "A", "p", "p",
        ".", "S", "i", "m", "p", "l", "e">>,
      note |-> <<"A", "p", "p", "l", "i", "c", "a", "t", "i", "o", "n", " ",
        "e", "n", "t", "r", "y">> ],
    [ id |-> "runtime-2", category |-> "RUNTIME",
      fromCommand |-> <<"o", "v", "e", "r", "r", "i", "d", "e", " ", "v", "a",
         "l", " ", "r", "u", "n", ":", " ", "Z", "I", "O", "[", ".", ".", ".",
         "]">>,
      toCommand |-> <<"v", "a", "l", " ", "r", "u", "n", ":", " ", "I", "O",
        "[", "T", "h", "r", "o", "w", "a", "b", "l", "e", ",", " ", "U", "n",
        "i", "t", "]">>,
      note |-> <<"M", "a", "i", "n", " ", "e", "f", "f", "e", "c", "t">> ],
    [ id |-> "runtime-3", category |-> "RUNTIME",
      fromCommand |-> <<"o", "v", "e", "r", "r", "i", "d", "e", " ", "v", "a",
         "l", " ", "b", "o", "o", "t", "s", "t", "r", "a", "p">>,
      toCommand |-> <<"I", "O", "R", "u", "n", "t", "i", "m", "e", " ", "(",
        "i", "m", "p", "l", "i", "c", "i", "t", ")">>,
      note |-> <<"R", "u", "n", "t", "i", "m", "e", " ", "c", "o", "n", "f",
        "i", "g">> ],
    [ id |-> "runtime-4", category |-> "RUNTIME",
      fromCommand |-> <<"e", "f", "f", "e", "c", "t", ".", "o", "n", "I", "n",
         "t", "e", "r", "r", "u", "p", "t", "(", "f", ")">>,
      toCommand |-> <<"e", "f", "f", "e", "c", "t", ".", "o", "n", "C", "a",
        "n", "c", "e", "l", "(", "f", ")">>,
      note |-> <<"S", "h", "u", "t", "d", "o", "w", "n", " ", "h", "o", "o",
        "k">> ],
    [ id |-> "runtime-5", category |-> "RUNTIME",
      fromCommand |-> <<"Z", "I", "O", ".", "l", "o", "g", "I", "n", "f", "o",
         "(", "m", "s", "g", ")">>,
      toCommand |-> <<"l", "o", "g", "g", "e", "r", ".", "i", "n", "f", "o",
        "(", "m", "s", "g", ")", " ", "(", "l", "o", "g", "4", "c", "a", "t",
        "s", ")">>,
      note |-> <<"L", "o", "g", "g", "i", "n", "g">> ],
    [ id |-> "interop-1", category |-> "INTEROP",
      fromCommand |-> <<"z", "i", "o", ".", "t", "o", "I", "O">>,
      toCommand |-> <<"U", "s", "e", " ", "i", "n", " ", "C", "E", " ", "v",
        "i", "a", " ", "i", "n", "t", "e", "r", "o", "p">>,
      note |-> <<"z", "i", "o", "-", "i", "n", "t", "e", "r", "o", "p", "-",
        "c", "a", "t", "s">> ],
    [ id |-> "interop-2", category |-> "INTEROP",
      fromCommand |-> <<"z", "i", "o", ".", "t", "o", "R", "e", "s", "o", "u",
         "r", "c", "e">>,
      toCommand |-> <<"U", "s", "e", " ", "i", "n", " ", "C", "E", " ", "v",
        "i", "a", " ", "i", "n", "t", "e", "r", "o", "p">>,
      note |-> <<"C", "o", "n", "v", "e", "r", "t", " ", "Z", "M", "a", "n",
        "a", "g", "e", "d">> ],
    [ id |-> "interop-3", category |-> "INTEROP",
      fromCommand |-> <<"e", "f", "f", "e", "c", "t", "s", ".", "p", "a", "r",
         "T", "u", "p", "l", "e", "d">>,
      toCommand |-> <<"e", "f", "f", "e", "c", "t", "s", ".", "p", "a", "r",
        "T", "u", "p", "l", "e", "d">>,
      note |-> <<"V", "i", "a", " ", "C", "a", "t", "s", " ", "P", "a", "r",
        "a", "l", "l", "e", "l">> ],
    [ id |-> "interop-4", category |-> "INTEROP",
      fromCommand |-> <<"l", "i", "s", "t", ".", "t", "r", "a", "v", "e", "r",
         "s", "e", "(", "Z", "I", "O", ")">>,
      toCommand |-> <<"l", "i", "s", "t", ".", "t", "r", "a", "v", "e", "r",
        "s", "e", "(", "I", "O", ")">>,
      note |-> <<"C", "a", "t", "s", " ", "s", "y", "n", "t", "a", "x">> ]
  >>

tmuxCheatSheetData ==
  <<
    [ id |-> "sessions-1", category |-> "SESSIONS",
      command |-> <<"t", "m", "u", "x", " ", "n", "e", "w", " ", "-", "s",
        " ", "<", "n", "a", "m", "e", ">">>,
      description |-> <<"C", "r", "e", "a", "t", "e", " ", "a", " ", "n", "e",
         "w", " ", "n", "a", "m", "e", "d", " ", "s", "e", "s", "s", "i", "o",
         "n">>,
      note |-> <<>> ],
    [ id |-> "sessions-2", category |-> "SESSIONS",
      command |-> <<"t", "m", "u", "x", " ", "l", "s">>,
      description |-> <<"L", "i", "s", "t", " ", "a", "l", "l", " ", "s", "e",
         "s", "s", "i", "o", "n", "s">>,
      note |-> <<"O", "r", ":", " ", "t", "m", "u", "x", " ", "l", "i", "s",
        "t", "-", "s", "e", "s", "s", "i", "o", "n", "s">> ],
    [ id |-> "sessions-3", category |-> "SESSIONS",
      command |-> <<"t", "m", "u", "x", " ", "a", "t", "t", "a", "c", "h",
        " ", "-", "t", " ", "<", "n", "a", "m", "e", ">">>,
      description |-> <<"A", "t", "t", "a", "c", "h", " ", "t", "o", " ", "a",
         "n", " ", "e", "x", "i", "s", "t", "i", "n", "g", " ", "s", "e", "s",
         "s", "i", "o", "n">>,
      note |-> <<"O", "r", ":", " ", "t", "m", "u", "x", " ", "a", "t", "t",
        "a", "c", "h", "-", "s", "e", "s", "s", "i", "o", "n", " ", "-", "t",
        " ", "<", "n", "a", "m", "e", ">">> ],
    [ id |-> "sessions-4", category |-> "SESSIONS",
      command |-> <<"C", "t", "r", "l", "+", "b", " ", "d">>,
      description |-> <<"D", "e", "t", "a", "c", "h", " ", "f", "r", "o", "m",
         " ", "c", "u", "r", "r", "e", "n", "t", " ", "s", "e", "s", "s", "i",
         "o", "n">>,
      note |-> <<"S", "e", "s", "s", "i", "o", "n", " ", "c", "o", "n", "t",
        "i", "n", "u", "e", "s", " ", "r", "u", "n", "n", "i", "n", "g", " ",
        "i", "n", " ", "b", "a", "c", "k", "g", "r", "o", "u", "n", "d">> ],
    [ id |-> "sessions-5", category |-> "SESSIONS",
      command |-> <<"t", "m", "u", "x", " ", "k", "i", "l", "l", "-", "s",
        "e", "s", "s", "i", "o", "n", " ", "-", "t", " ", "<", "n", "a", "m",
        "e", ">">>,
      description |-> <<"K", "i", "l", "l", " ", "a", " ", "s", "p", "e", "c",
         "i", "f", "i", "c", " ", "s", "e", "s", "s", "i", "o", "n">>,
      note |-> <<>> ],
    [ id |-> "sessions-6", category |-> "SESSIONS",
      command |-> <<"C", "t", "r", "l", "+", "b", " ", "$">>,
      description |-> <<"R", "e", "n", "a", "m", "e", " ", "c", "u", "r", "r",
         "e", "n", "t", " ", "s", "e", "s", "s", "i", "o", "n">>,
      note |-> <<"P", "r", "o", "m", "p", "t", " ", "a", "p", "p", "e", "a",
        "r", "s", " ", "a", "t", " ", "b", "o", "t", "t", "o", "m">> ],
    [ id |-> "sessions-7", category |-> "SESSIONS",
      command |-> <<"C", "t", "r", "l", "+", "b", " ", "s">>,
      description |-> <<"S", "h", "o", "w", " ", "a", "l", "l", " ", "s", "e",
         "s", "s", "i", "o", "n", "s", " ", "(", "i", "n", "t", "e", "r", "a",
         "c", "t", "i", "v", "e", ")">>,
      note |-> <<"N", "a", "v", "i", "g", "a", "t", "e", " ", "a", "n", "d",
        " ", "p", "r", "e", "s", "s", " ", "E", "n", "t", "e", "r", " ", "t",
        "o", " ", "a", "t", "t", "a", "c", "h">> ],
    [ id |-> "windows-1", category |-> "WINDOWS",
      command |-> <<"C", "t", "r", "l", "+", "b", " ", "c">>,
      description |-> <<"C", "r", "e", "a", "t", "e", " ", "a", " ", "n", "e",
         "w", " ", "w", "i", "n", "d", "o", "w">>,
      note |-> <<"W", "i", "n", "d", "o", "w", "s", " ", "a", "r", "e", " ",
        "n", "u", "m", "b", "e", "r", "e", "d", " ", "s", "t", "a", "r", "t",
        "i", "n", "g", " ", "a", "t", " ", "0">> ],
    [ id |-> "windows-2", category |-> "WINDOWS",
      command |-> <<"C", "t", "r", "l", "+", "b", " ", ",">>,
      description |-> <<"R", "e", "n", "a", "m", "e", " ", "c", "u", "r", "r",
         "e", "n", "t", " ", "w", "i", "n", "d", "o", "w">>,
      note |-> <<>> ],
    [ id |-> "windows-3", category |-> "WINDOWS",
      command |-> <<"C", "t", "r", "l", "+", "b", " ", "n">>,
      description |-> <<"S", "w", "i", "t", "c", "h", " ", "t", "o", " ", "n",
         "e", "x", "t", " ", "w", "i", "n", "d", "o", "w">>,
      note |-> <<>> ],
    [ id |-> "windows-4", category |-> "WINDOWS",
      command |-> <<"C", "t", "r", "l", "+", "b", " ", "p">>,
      description |-> <<"S", "w", "i", "t", "c", "h", " ", "t", "o", " ", "p",
         "r", "e", "v", "i", "o", "u", "s", " ", "w", "i", "n", "d", "o", "w"
        >>,
      note |-> <<>> ],
    [ id |-> "windows-5", category |-> "WINDOWS",
      command |-> <<"C", "t", "r", "l", "+", "b", " ", "0", "-", "9">>,
      description |-> <<"S", "w", "i", "t", "c", "h", " ", "t", "o", " ", "w",
         "i", "n", "d", "o", "w", " ", "b", "y", " ", "n", "u", "m", "b", "e",
         "r">>,
      note |-> <<>> ],
    [ id |-> "windows-6", category |-> "WINDOWS",
      command |-> <<"C", "t", "r", "l", "+", "b", " ", "w">>,
      description |-> <<"L", "i", "s", "t", " ", "a", "l", "l", " ", "w", "i",
         "n", "d", "o", "w", "s", " ", "(", "i", "n", "t", "e", "r", "a", "c",
         "t", "i", "v", "e", ")">>,
      note |-> <<>> ],
    [ id |-> "windows-7", category |-> "WINDOWS",
      command |-> <<"C", "t", "r", "l", "+", "b", " ", "&">>,
      description |-> <<"K", "i", "l", "l", " ", "c", "u", "r", "r", "e", "n",
         "t", " ", "w", "i", "n", "d", "o", "w">>,
      note |-> <<"C", "o", "n", "f", "i", "r", "m", "s", " ", "b", "e", "f",
        "o", "r", "e", " ", "k", "i", "l", "l", "i", "n", "g">> ],
    [ id |-> "windows-8", category |-> "WINDOWS",
      command |-> <<"C", "t", "r", "l", "+", "b", " ", "f">>,
      description |-> <<"F", "i", "n", "d", " ", "w", "i", "n", "d", "o", "w",
         " ", "b", "y", " ", "n", "a", "m", "e">>,
      note |-> <<"S", "e", "a", "r", "c", "h", " ", "p", "r", "o", "m", "p",
        "t", " ", "a", "p", "p", "e", "a", "r", "s">> ],
    [ id |-> "panes-1", category |-> "PANES",
      command |-> <<"C", "t", "r", "l", "+", "b", " ", "%">>,
      description |-> <<"S", "p", "l", "i", "t", " ", "p", "a", "n", "e", " ",
         "v", "e", "r", "t", "i", "c", "a", "l", "l", "y", " ", "(", "l", "e",
         "f", "t", "/", "r", "i", "g", "h", "t", ")">>,
      note |-> <<>> ],
    [ id |-> "panes-2", category |-> "PANES",
      command |-> <<"C", "t", "r", "l", "+", "b", " ", "\"">>,
      description |-> <<"S", "p", "l", "i", "t", " ", "p", "a", "n", "e", " ",
         "h", "o", "r", "i", "z", "o", "n", "t", "a", "l", "l", "y", " ", "(",
         "t", "o", "p", "/", "b", "o", "t", "t", "o", "m", ")">>,
      note |-> <<>> ],
    [ id |-> "panes-3", category |-> "PANES",
      command |-> <<"C", "t", "r", "l", "+", "b", " ", "o">>,
      description |-> <<"C", "y", "c", "l", "e", " ", "t", "o", " ", "n", "e",
         "x", "t", " ", "p", "a", "n", "e">>,
      note |-> <<>> ],
    [ id |-> "panes-4", category |-> "PANES",
      command |-> <<"C", "t", "r", "l", "+", "b", " ", "a", "r", "r", "o",
        "w", " ", "k", "e", "y", "s">>,
      description |-> <<"N", "a", "v", "i", "g", "a", "t", "e", " ", "t", "o",
         " ", "p", "a", "n", "e", " ", "i", "n", " ", "d", "i", "r", "e", "c",
         "t", "i", "o", "n">>,
      note |-> <<"U", "p", ",", " ", "D", "o", "w", "n", ",", " ", "L", "e",
        "f", "t", ",", " ", "R", "i", "g", "h", "t">> ],
    [ id |-> "panes-5", category |-> "PANES",
      command |-> <<"C", "t", "r", "l", "+", "b", " ", "q">>,
      description |-> <<"S", "h", "o", "w", " ", "p", "a", "n", "e", " ", "n",
         "u", "m", "b", "e", "r", "s", " ", "(", "U+77ED", "U+6682", "U+663E",
         "U+793A", ")">>,
      note |-> <<"P", "r", "e", "s", "s", " ", "n", "u", "m", "b", "e", "r",
        " ", "t", "o", " ", "j", "u", "m", "p", " ", "t", "o", " ", "p", "a",
        "n", "e">> ],
    [ id |-> "panes-6", category |-> "PANES",
      command |-> <<"C", "t", "r", "l", "+", "b", " ", "z">>,
      description |-> <<"T", "o", "g", "g", "l", "e", " ", "z", "o", "o", "m",
         " ", "c", "u", "r", "r", "e", "n", "t", " ", "p", "a", "n", "e">>,
      note |-> <<"E", "x", "p", "a", "n", "d", " ", "t", "o", " ", "f", "i",
        "l", "l", " ", "w", "i", "n", "d", "o", "w", ",", " ", "t", "o", "g",
        "g", "l", "e", " ", "b", "a", "c", "k">> ],
    [ id |-> "panes-7", category |-> "PANES",
      command |-> <<"C", "t", "r", "l", "+", "b", " ", "{">>,
      description |-> <<"M", "o", "v", "e", " ", "p", "a", "n", "e", " ", "l",
         "e", "f", "t", " ", "(", "s", "w", "a", "p", ")">>,
      note |-> <<>> ],
    [ id |-> "panes-8", category |-> "PANES",
      command |-> <<"C", "t", "r", "l", "+", "b", " ", "}">>,
      description |-> <<"M", "o", "v", "e", " ", "p", "a", "n", "e", " ", "r",
         "i", "g", "h", "t", " ", "(", "s", "w", "a", "p", ")">>,
      note |-> <<>> ],
    [ id |-> "panes-9", category |-> "PANES",
      command |-> <<"C", "t", "r", "l", "+", "b", " ", "x">>,
      description |-> <<"K", "i", "l", "l", " ", "c", "u", "r", "r", "e", "n",
         "t", " ", "p", "a", "n", "e">>,
      note |-> <<"C", "o", "n", "f", "i", "r", "m", "s", " ", "b", "e", "f",
        "o", "r", "e", " ", "k", "i", "l", "l", "i", "n", "g">> ],
    [ id |-> "panes-10", category |-> "PANES",
      command |-> <<"C", "t", "r", "l", "+", "b", " ", "C", "t", "r", "l",
        "+", "a", "r", "r", "o", "w">>,
      description |-> <<"R", "e", "s", "i", "z", "e", " ", "p", "a", "n", "e",
         " ", "i", "n", " ", "d", "i", "r", "e", "c", "t", "i", "o", "n">>,
      note |-> <<"H", "o", "l", "d", " ", "C", "t", "r", "l", " ", "a", "n",
        "d", " ", "p", "r", "e", "s", "s", " ", "a", "r", "r", "o", "w", " ",
        "r", "e", "p", "e", "a", "t", "e", "d", "l", "y">> ],
    [ id |-> "nav-1", category |-> "NAVIGATION",
      command |-> <<"C", "t", "r", "l", "+", "b", " ", "[">>,
      description |-> <<"E", "n", "t", "e", "r", " ", "s", "c", "r", "o", "l",
         "l", " ", "m", "o", "d", "e", " ", "(", "c", "o", "p", "y", " ", "m",
         "o", "d", "e", ")">>,
      note |-> <<"U", "s", "e", " ", "a", "r", "r", "o", "w", "s", " ", "o",
        "r", " ", "v", "i", " ", "k", "e", "y", "s", " ", "t", "o", " ", "s",
        "c", "r", "o", "l", "l">> ],
    [ id |-> "nav-2", category |-> "NAVIGATION",
      command |-> <<"C", "t", "r", "l", "+", "b", " ", "p", "a", "g", "e",
        " ", "u", "p", "/", "d", "o", "w", "n">>,
      description |-> <<"S", "c", "r", "o", "l", "l", " ", "t", "e", "r", "m",
         "i", "n", "a", "l", " ", "o", "u", "t", "p", "u", "t">>,
      note |-> <<"W", "i", "t", "h", "o", "u", "t", " ", "e", "n", "t", "e",
        "r", "i", "n", "g", " ", "c", "o", "p", "y", " ", "m", "o", "d", "e">>
         ],
    [ id |-> "nav-3", category |-> "NAVIGATION",
      command |-> <<"q", " ", "o", "r", " ", "E", "s", "c">>,
      description |-> <<"E", "x", "i", "t", " ", "c", "o", "p", "y", " ", "m",
         "o", "d", "e">>,
      note |-> <<>> ],
    [ id |-> "nav-4", category |-> "NAVIGATION",
      command |-> <<"C", "t", "r", "l", "+", "b", " ", ":">>,
      description |-> <<"E", "n", "t", "e", "r", " ", "c", "o", "m", "m", "a",
         "n", "d", " ", "m", "o", "d", "e">>,
      note |-> <<"T", "y", "p", "e", " ", "c", "o", "m", "m", "a", "n", "d",
        "s", " ", "a", "t", " ", "p", "r", "o", "m", "p", "t">> ],
    [ id |-> "nav-5", category |-> "NAVIGATION",
      command |-> <<"C", "t", "r", "l", "+", "b", " ", "?">>,
      description |-> <<"L", "i", "s", "t", " ", "a", "l", "l", " ", "k", "e",
         "y", " ", "b", "i", "n", "d", "i", "n", "g", "s">>,
      note |-> <<"P", "r", "e", "s", "s", " ", "q", " ", "t", "o", " ", "e",
        "x", "i", "t", " ", "l", "i", "s", "t">> ],
    [ id |-> "copy-1", category |-> "COPY_MODE",
      command |-> <<"C", "t", "r", "l", "+", "b", " ", "[">>,
      description |-> <<"E", "n", "t", "e", "r", " ", "c", "o", "p", "y", " ",
         "m", "o", "d", "e">>,
      note |-> <<>> ],
    [ id |-> "copy-2", category |-> "COPY_MODE",
      command |-> <<"S", "p", "a", "c", "e", " ", "(", "s", "t", "a", "r",
        "t", " ", "s", "e", "l", "e", "c", "t", "i", "o", "n", ")">>,
      description |-> <<"B", "e", "g", "i", "n", " ", "t", "e", "x", "t", " ",
         "s", "e", "l", "e", "c", "t", "i", "o", "n">>,
      note |-> <<"S", "t", "a", "r", "t", "s", " ", "c", "o", "p", "y", " ",
        "m", "o", "d", "e", " ", "s", "e", "l", "e", "c", "t", "i", "o", "n">>
         ],
    [ id |-> "copy-3", category |-> "COPY_MODE",
      command |-> <<"E", "n", "t", "e", "r", " ", "(", "c", "o", "p", "y",
        " ", "s", "e", "l", "e", "c", "t", "i", "o", "n", ")">>,
      description |-> <<"C", "o", "p", "y", " ", "s", "e", "l", "e", "c", "t",
         "e", "d", " ", "t", "e", "x", "t">>,
      note |-> <<"A", "l", "s", "o", ":", " ", "C", "t", "r", "l", "+", "w",
        " ", "o", "r", " ", "y", " ", "d", "e", "p", "e", "n", "d", "i", "n",
        "g", " ", "o", "n", " ", "m", "o", "d", "e">> ],
    [ id |-> "copy-4", category |-> "COPY_MODE",
      command |-> <<"C", "t", "r", "l", "+", "b", " ", "]">>,
      description |-> <<"P", "a", "s", "t", "e", " ", "c", "o", "p", "i", "e",
         "d", " ", "t", "e", "x", "t">>,
      note |-> <<"P", "a", "s", "t", "e", " ", "b", "u", "f", "f", "e", "r",
        " ", "t", "o", " ", "c", "u", "r", "r", "e", "n", "t", " ", "p", "a",
        "n", "e">> ],
    [ id |-> "copy-5", category |-> "COPY_MODE",
      command |-> <<"/", " ", "(", "i", "n", " ", "c", "o", "p", "y", " ",
        "m", "o", "d", "e", ")">>,
      description |-> <<"S", "e", "a", "r", "c", "h", " ", "f", "o", "r", "w",
         "a", "r", "d">>,
      note |-> <<"S", "e", "a", "r", "c", "h", " ", "p", "r", "o", "m", "p",
        "t", " ", "a", "p", "p", "e", "a", "r", "s">> ],
    [ id |-> "copy-6", category |-> "COPY_MODE",
      command |-> <<"?", " ", "(", "i", "n", " ", "c", "o", "p", "y", " ",
        "m", "o", "d", "e", ")">>,
      description |-> <<"S", "e", "a", "r", "c", "h", " ", "b", "a", "c", "k",
         "w", "a", "r", "d">>,
      note |-> <<>> ],
    [ id |-> "copy-7", category |-> "COPY_MODE",
      command |-> <<"n", " ", "(", "i", "n", " ", "c", "o", "p", "y", " ",
        "m", "o", "d", "e", ")">>,
      description |-> <<"R", "e", "p", "e", "a", "t", " ", "s", "e", "a", "r",
         "c", "h", " ", "i", "n", " ", "s", "a", "m", "e", " ", "d", "i", "r",
         "e", "c", "t", "i", "o", "n">>,
      note |-> <<>> ],
    [ id |-> "copy-8", category |-> "COPY_MODE",
      command |-> <<"N", " ", "(", "i", "n", " ", "c", "o", "p", "y", " ",
        "m", "o", "d", "e", ")">>,
      description |-> <<"R", "e", "p", "e", "a", "t", " ", "s", "e", "a", "r",
         "c", "h", " ", "i", "n", " ", "o", "p", "p", "o", "s", "i", "t", "e",
         " ", "d", "i", "r", "e", "c", "t", "i", "o", "n">>,
      note |-> <<>> ],
    [ id |-> "config-1", category |-> "CONFIG",
      command |-> <<"~", "/", ".", "t", "m", "u", "x", ".", "c", "o", "n", "f"
        >>,
      description |-> <<"C", "o", "n", "f", "i", "g", "u", "r", "a", "t", "i",
         "o", "n", " ", "f", "i", "l", "e", " ", "l", "o", "c", "a", "t", "i",
         "o", "n">>,
      note |-> <<"C", "r", "e", "a", "t", "e", " ", "i", "f", " ", "d", "o",
        "e", "s", "n", "'", "t", " ", "e", "x", "i", "s", "t">> ],
    [ id |-> "config-2", category |-> "CONFIG",
      command |-> <<"s", "e", "t", " ", "-", "g", " ", "p", "r", "e", "f",
        "i", "x", " ", "C", "-", "a">>,
      description |-> <<"C", "h", "a", "n", "g", "e", " ", "p", "r", "e", "f",
         "i", "x", " ", "k", "e", "y", " ", "t", "o", " ", "C", "t", "r", "l",
         "+", "a">>,
      note |-> <<"A", "d", "d", " ", "t", "o", " ", ".", "t", "m", "u", "x",
        ".", "c", "o", "n", "f", ",", " ", "t", "h", "e", "n", ":", " ", "s",
        "o", "u", "r", "c", "e", " ", "~", "/", ".", "t", "m", "u", "x", ".",
        "c", "o", "n", "f">> ],
    [ id |-> "config-3", category |-> "CONFIG",
      command |-> <<"s", "e", "t", " ", "-", "g", " ", "m", "o", "u", "s",
        "e", " ", "o", "n">>,
      description |-> <<"E", "n", "a", "b", "l", "e", " ", "m", "o", "u", "s",
         "e", " ", "s", "u", "p", "p", "o", "r", "t">>,
      note |-> <<"C", "l", "i", "c", "k", " ", "t", "o", " ", "s", "e", "l",
        "e", "c", "t", " ", "p", "a", "n", "e", "s", ",", " ", "d", "r", "a",
        "g", " ", "t", "o", " ", "r", "e", "s", "i", "z", "e">> ],
    [ id |-> "config-4", category |-> "CONFIG",
      command |-> <<"s", "e", "t", " ", "-", "g", " ", "s", "t", "a", "t",
        "u", "s", "-", "b", "g", " ", "c", "o", "l", "o", "u", "r">>,
      description |-> <<"S", "e", "t", " ", "s", "t", "a", "t", "u", "s", " ",
         "b", "a", "r", " ", "b", "a", "c", "k", "g", "r", "o", "u", "n", "d",
         " ", "c", "o", "l", "o", "r">>,
      note |-> <<"C", "o", "l", "o", "u", "r", "s", ":", " ", "b", "l", "a",
        "c", "k", ",", " ", "r", "e", "d", ",", " ", "g", "r", "e", "e", "n",
        ",", " ", "y", "e", "l", "l", "o", "w", ",", " ", "b", "l", "u", "e",
        ",", " ", "m", "a", "g", "e", "n", "t", "a", ",", " ", "c", "y", "a",
        "n", ",", " ", "w", "h", "i", "t", "e">> ],
    [ id |-> "config-5", category |-> "CONFIG",
      command |-> <<"b", "i", "n", "d", " ", "r", " ", "s", "o", "u", "r",
        "c", "e", "-", "f", "i", "l", "e", " ", "~", "/", ".", "t", "m", "u",
        "x", ".", "c", "o", "n", "f", " ", "\\", ";", " ", "d", "i", "s", "p",
         "l", "a", "y", " ", "'", "R", "e", "l", "o", "a", "d", "e", "d", "!",
         "'">>,
      description |-> <<"R", "e", "l", "o", "a", "d", " ", "c", "o", "n", "f",
         "i", "g", " ", "w", "i", "t", "h", " ", "C", "t", "r", "l", "+", "b",
         " ", "r">>,
      note |-> <<"A", "d", "d", " ", "t", "o", " ", ".", "t", "m", "u", "x",
        ".", "c", "o", "n", "f", " ", "f", "o", "r", " ", "q", "u", "i", "c",
        "k", " ", "r", "e", "l", "o", "a", "d">> ],
    [ id |-> "config-6", category |-> "CONFIG",
      command |-> <<"s", "e", "t", " ", "-", "g", " ", "b", "a", "s", "e",
        "-", "i", "n", "d", "e", "x", " ", "1">>,
      description |-> <<"S", "t", "a", "r", "t", " ", "w", "i", "n", "d", "o",
         "w", "s", "/", "p", "a", "n", "e", "s", " ", "a", "t", " ", "1", " ",
         "i", "n", "s", "t", "e", "a", "d", " ", "o", "f", " ", "0">>,
      note |-> <<"M", "a", "k", "e", "s", " ", "k", "e", "y", "b", "o", "a",
        "r", "d", " ", "s", "h", "o", "r", "t", "c", "u", "t", "s", " ", "m",
        "o", "r", "e", " ", "e", "r", "g", "o", "n", "o", "m", "i", "c">> ],
    [ id |-> "config-7", category |-> "CONFIG",
      command |-> <<"s", "e", "t", " ", "-", "g", " ", "s", "t", "a", "t",
        "u", "s", "-", "k", "e", "y", "s", " ", "v", "i">>,
      description |-> <<"U", "s", "e", " ", "v", "i", " ", "k", "e", "y", " ",
         "b", "i", "n", "d", "i", "n", "g", "s", " ", "i", "n", " ", "c", "o",
         "m", "m", "a", "n", "d", " ", "m", "o", "d", "e">>,
      note |-> <<>> ],
    [ id |-> "config-8", category |-> "CONFIG",
      command |-> <<"s", "e", "t", "w", " ", "-", "g", " ", "m", "o", "d",
        "e", "-", "k", "e", "y", "s", " ", "v", "i">>,
      description |-> <<"U", "s", "e", " ", "v", "i", " ", "k", "e", "y", "s",
         " ", "i", "n", " ", "c", "o", "p", "y", " ", "m", "o", "d", "e">>,
      note |-> <<"D", "e", "f", "a", "u", "l", "t", " ", "i", "s", " ", "e",
        "m", "a", "c", "s">> ]
  >>

effectZioGlossaryData ==
  <<
    [ id |-> "core-1", category |-> "CORE",
      fromCommand |-> <<"E", "f", "f", "e", "c", "t", "<", "A", ",", " ", "E",
         ",", " ", "R", ">">>,
      toCommand |-> <<"Z", "I", "O", "[", "-", "R", ",", " ", "+", "E", ",",
        " ", "+", "A", "]">>,
      note |-> <<"T", "y", "p", "e", " ", "p", "a", "r", "a", "m", "e", "t",
        "e", "r", " ", "o", "r", "d", "e", "r", " ", "i", "s", " ", "d", "i",
        "f", "f", "e", "r", "e", "n", "t", ":", " ", "E", "f", "f", "e", "c",
        "t", " ", "p", "u", "t", "s", " ", "S", "u", "c", "c", "e", "s", "s",
        " ", "(", "A", ")", " ", "f", "i", "r", "s", "t", ",", " ", "w", "h",
        "i", "l", "e", " ", "Z", "I", "O", " ", "p", "u", "t", "s", " ", "E",
        "n", "v", "i", "r", "o", "n", "m", "e", "n", "t", " ", "(", "R", ")",
        " ", "f", "i", "r", "s", "t">> ],
    [ id |-> "core-2", category |-> "CORE",
      fromCommand |-> <<"E", "f", "f", "e", "c", "t", ".", "s", "u", "c", "c",
         "e", "e", "d", "(", "x", ")">>,
      toCommand |-> <<"Z", "I", "O", ".", "s", "u", "c", "c", "e", "e", "d",
        "(", "x", ")">>,
      note |-> <<"C", "r", "e", "a", "t", "e", "s", " ", "a", " ", "s", "u",
        "c", "c", "e", "s", "s", "f", "u", "l", " ", "e", "f", "f", "e", "c",
        "t", " ", "w", "i", "t", "h", " ", "t", "h", "e", " ", "g", "i", "v",
        "e", "n", " ", "v", "a", "l", "u", "e">> ],
    [ id |-> "core-3", category |-> "CORE",
      fromCommand |-> <<"E", "f", "f", "e", "c", "t", ".", "f", "a", "i", "l",
         "(", "e", ")">>,
      toCommand |-> <<"Z", "I", "O", ".", "f", "a", "i", "l", "(", "e", ")">>,
      note |-> <<"C", "r", "e", "a", "t", "e", "s", " ", "a", " ", "f", "a",
        "i", "l", "e", "d", " ", "e", "f", "f", "e", "c", "t", " ", "w", "i",
        "t", "h", " ", "t", "h", "e", " ", "g", "i", "v", "e", "n", " ", "e",
        "r", "r", "o", "r">> ],
    [ id |-> "core-4", category |-> "CORE",
      fromCommand |-> <<"E", "f", "f", "e", "c", "t", ".", "t", "r", "y", "(",
         "(", ")", " ", "=", ">", " ", ".", ".", ".", ")">>,
      toCommand |-> <<"Z", "I", "O", ".", "a", "t", "t", "e", "m", "p", "t",
        "(", ".", ".", ".", ")">>,
      note |-> <<"W", "r", "a", "p", "s", " ", "a", " ", "s", "y", "n", "c",
        "h", "r", "o", "n", "o", "u", "s", " ", "o", "p", "e", "r", "a", "t",
        "i", "o", "n", " ", "t", "h", "a", "t", " ", "m", "a", "y", " ", "t",
        "h", "r", "o", "w">> ],
    [ id |-> "core-5", category |-> "CORE",
      fromCommand |-> <<"E", "f", "f", "e", "c", "t", ".", "s", "y", "n", "c",
         "(", "(", ")", " ", "=", ">", " ", ".", ".", ".", ")">>,
      toCommand |-> <<"Z", "I", "O", ".", "s", "u", "s", "p", "e", "n", "d",
        "(", ".", ".", ".", ")">>,
      note |-> <<"D", "e", "f", "e", "r", "s", " ", "e", "v", "a", "l", "u",
        "a", "t", "i", "o", "n", " ", "o", "f", " ", "a", " ", "t", "h", "u",
        "n", "k", " ", "(", "s", "i", "d", "e", "-", "e", "f", "f", "e", "c",
        "t", "i", "n", "g", " ", "c", "o", "d", "e", ")">> ],
    [ id |-> "errors-1", category |-> "ERRORS",
      fromCommand |-> <<"E", "f", "f", "e", "c", "t", ".", "c", "a", "t", "c",
         "h", "A", "l", "l", "(", "f", "a", ",", " ", "f", ")">>,
      toCommand |-> <<"f", "a", ".", "c", "a", "t", "c", "h", "A", "l", "l",
        "(", "f", ")">>,
      note |-> <<"H", "a", "n", "d", "l", "e", " ", "a", "l", "l", " ", "e",
        "r", "r", "o", "r", "s", " ", "w", "i", "t", "h", " ", "a", " ", "r",
        "e", "c", "o", "v", "e", "r", "y", " ", "f", "u", "n", "c", "t", "i",
        "o", "n">> ],
    [ id |-> "errors-2", category |-> "ERRORS",
      fromCommand |-> <<"E", "f", "f", "e", "c", "t", ".", "o", "r", "E", "l",
         "s", "e", "(", "f", "a", ",", " ", "(", ")", " ", "=", ">", " ", "f",
         "b", ")">>,
      toCommand |-> <<"f", "a", ".", "o", "r", "E", "l", "s", "e", "(", "f",
        "b", ")">>,
      note |-> <<"R", "u", "n", " ", "f", "a", "l", "l", "b", "a", "c", "k",
        " ", "e", "f", "f", "e", "c", "t", " ", "i", "f", " ", "f", "i", "r",
        "s", "t", " ", "f", "a", "i", "l", "s">> ],
    [ id |-> "errors-3", category |-> "ERRORS",
      fromCommand |-> <<"E", "f", "f", "e", "c", "t", ".", "m", "a", "p", "E",
         "r", "r", "o", "r", "(", "f", "a", ",", " ", "f", ")">>,
      toCommand |-> <<"f", "a", ".", "m", "a", "p", "E", "r", "r", "o", "r",
        "(", "f", ")">>,
      note |-> <<"T", "r", "a", "n", "s", "f", "o", "r", "m", " ", "t", "h",
        "e", " ", "e", "r", "r", "o", "r", " ", "t", "y", "p", "e">> ],
    [ id |-> "errors-4", category |-> "ERRORS",
      fromCommand |-> <<"E", "f", "f", "e", "c", "t", ".", "e", "i", "t", "h",
         "e", "r", "(", "f", "a", ")">>,
      toCommand |-> <<"f", "a", ".", "e", "i", "t", "h", "e", "r">>,
      note |-> <<"C", "o", "n", "v", "e", "r", "t", " ", "E", "f", "f", "e",
        "c", "t", "<", "A", ",", " ", "E", ",", " ", "R", ">", " ", "t", "o",
        " ", "E", "f", "f", "e", "c", "t", "<", "E", "i", "t", "h", "e", "r",
        "<", "E", ",", " ", "A", ">", ",", " ", "n", "e", "v", "e", "r", ",",
        " ", "R", ">">> ],
    [ id |-> "errors-5", category |-> "ERRORS",
      fromCommand |-> <<"E", "f", "f", "e", "c", "t", ".", "d", "i", "e", "(",
         "d", "e", "f", "e", "c", "t", ")">>,
      toCommand |-> <<"Z", "I", "O", ".", "d", "i", "e", "(", "d", "e", "f",
        "e", "c", "t", ")">>,
      note |-> <<"C", "r", "e", "a", "t", "e", " ", "a", " ", "f", "a", "t",
        "a", "l", " ", "d", "e", "f", "e", "c", "t", " ", "(", "n", "o", "t",
        " ", "i", "n", " ", "t", "h", "e", " ", "t", "y", "p", "e", "d", " ",
        "e", "r", "r", "o", "r", " ", "c", "h", "a", "n", "n", "e", "l", ")">>
         ],
    [ id |-> "composition-1", category |-> "COMPOSITION",
      fromCommand |-> <<"E", "f", "f", "e", "c", "t", ".", "g", "e", "n", "(",
         "f", "u", "n", "c", "t", "i", "o", "n", "*", " ", "(", ")", " ", "{",
         " ", ".", ".", ".", " ", "}", ")">>,
      toCommand |-> <<"f", "o", "r", " ", "{", " ", ".", ".", ".", " ", "}",
        " ", "y", "i", "e", "l", "d", " ", ".", ".", ".">>,
      note |-> <<"S", "e", "q", "u", "e", "n", "t", "i", "a", "l", " ", "c",
        "o", "m", "p", "o", "s", "i", "t", "i", "o", "n", " ", "w", "i", "t",
        "h", " ", "g", "e", "n", "e", "r", "a", "t", "o", "r", "s", ".", " ",
        "U", "s", "e", " ", "y", "i", "e", "l", "d", "*", " ", "t", "o", " ",
        "u", "n", "w", "r", "a", "p", " ", "e", "f", "f", "e", "c", "t", "s">>
         ],
    [ id |-> "composition-2", category |-> "COMPOSITION",
      fromCommand |-> <<"y", "i", "e", "l", "d", "*", " ", "e", "f", "f", "e",
         "c", "t">>,
      toCommand |-> <<"<", "-", " ", "e", "f", "f", "e", "c", "t", " ", "(",
        "i", "n", " ", "f", "o", "r", "-", "c", "o", "m", "p", "r", "e", "h",
        "e", "n", "s", "i", "o", "n", ")">>,
      note |-> <<"B", "i", "n", "d", "/", "u", "n", "w", "r", "a", "p", " ",
        "a", "n", " ", "e", "f", "f", "e", "c", "t", " ", "i", "n", " ", "a",
        " ", "g", "e", "n", "e", "r", "a", "t", "o", "r">> ],
    [ id |-> "composition-3", category |-> "COMPOSITION",
      fromCommand |-> <<"E", "f", "f", "e", "c", "t", ".", "m", "a", "p", "(",
         "f", "a", ",", " ", "f", ")">>,
      toCommand |-> <<"f", "a", ".", "m", "a", "p", "(", "f", ")">>,
      note |-> <<"T", "r", "a", "n", "s", "f", "o", "r", "m", " ", "t", "h",
        "e", " ", "s", "u", "c", "c", "e", "s", "s", " ", "v", "a", "l", "u",
        "e">> ],
    [ id |-> "composition-4", category |-> "COMPOSITION",
      fromCommand |-> <<"E", "f", "f", "e", "c", "t", ".", "f", "l", "a", "t",
         "M", "a", "p", "(", "f", "a", ",", " ", "f", ")">>,
      toCommand |-> <<"f", "a", ".", "f", "l", "a", "t", "M", "a", "p", "(",
        "f", ")">>,
      note |-> <<"C", "h", "a", "i", "n", " ", "e", "f", "f", "e", "c", "t",
        "s", " ", "(", "b", "i", "n", "d", ")">> ],
    [ id |-> "services-1", category |-> "SERVICES",
      fromCommand |-> <<"c", "l", "a", "s", "s", " ", "T", "a", "g", " ", "e",
         "x", "t", "e", "n", "d", "s", " ", "C", "o", "n", "t", "e", "x", "t",
         ".", "T", "a", "g">>,
      toCommand |-> <<"Z", "I", "O", ".", "s", "e", "r", "v", "i", "c", "e",
        "[", "T", "]">>,
      note |-> <<"D", "e", "f", "i", "n", "e", " ", "s", "e", "r", "v", "i",
        "c", "e", " ", "t", "a", "g", "s", " ", "w", "i", "t", "h", " ", "C",
        "o", "n", "t", "e", "x", "t", ".", "T", "a", "g", " ", "c", "l", "a",
        "s", "s", " ", "p", "a", "t", "t", "e", "r", "n">> ],
    [ id |-> "services-2", category |-> "SERVICES",
      fromCommand |-> <<"y", "i", "e", "l", "d", "*", " ", "S", "e", "r", "v",
         "i", "c", "e", "T", "a", "g">>,
      toCommand |-> <<"Z", "I", "O", ".", "s", "e", "r", "v", "i", "c", "e",
        "[", "S", "e", "r", "v", "i", "c", "e", "T", "y", "p", "e", "]">>,
      note |-> <<"A", "c", "c", "e", "s", "s", " ", "a", " ", "s", "e", "r",
        "v", "i", "c", "e", " ", "i", "n", " ", "E", "f", "f", "e", "c", "t",
        ".", "g", "e", "n">> ],
    [ id |-> "services-3", category |-> "SERVICES",
      fromCommand |-> <<"L", "a", "y", "e", "r", ".", "s", "u", "c", "c", "e",
         "e", "d", "(", "T", "a", "g", ",", " ", "i", "m", "p", "l", ")">>,
      toCommand |-> <<"Z", "L", "a", "y", "e", "r", ".", "s", "u", "c", "c",
        "e", "e", "d", "(", "i", "m", "p", "l", ")">>,
      note |-> <<"C", "r", "e", "a", "t", "e", " ", "a", " ", "l", "a", "y",
        "e", "r", " ", "f", "r", "o", "m", " ", "a", " ", "s", "e", "r", "v",
        "i", "c", "e", " ", "i", "m", "p", "l", "e", "m", "e", "n", "t", "a",
        "t", "i", "o", "n">> ],
    [ id |-> "services-4", category |-> "SERVICES",
      fromCommand |-> <<"L", "a", "y", "e", "r", ".", "e", "f", "f", "e", "c",
         "t", "(", "T", "a", "g", ",", " ", "e", "f", "f", "e", "c", "t", ")"
        >>,
      toCommand |-> <<"Z", "L", "a", "y", "e", "r", ".", "f", "r", "o", "m",
        "E", "f", "f", "e", "c", "t", "(", ".", ".", ".", ")">>,
      note |-> <<"C", "r", "e", "a", "t", "e", " ", "a", " ", "l", "a", "y",
        "e", "r", " ", "f", "r", "o", "m", " ", "a", "n", " ", "e", "f", "f",
        "e", "c", "t">> ],
    [ id |-> "layers-1", category |-> "LAYERS",
      fromCommand |-> <<"L", "a", "y", "e", "r", ".", "p", "r", "o", "v", "i",
         "d", "e", "(", "i", "n", "n", "e", "r", ",", " ", "o", "u", "t", "e",
         "r", ")">>,
      toCommand |-> <<"o", "u", "t", "e", "r", " ", ">", ">", ">", " ", "i",
        "n", "n", "e", "r">>,
      note |-> <<"H", "o", "r", "i", "z", "o", "n", "t", "a", "l", " ", "l",
        "a", "y", "e", "r", " ", "c", "o", "m", "p", "o", "s", "i", "t", "i",
        "o", "n", " ", "(", "d", "e", "p", "e", "n", "d", "e", "n", "c", "i",
        "e", "s", ")">> ],
    [ id |-> "layers-2", category |-> "LAYERS",
      fromCommand |-> <<"L", "a", "y", "e", "r", ".", "m", "e", "r", "g", "e",
         "(", "l", "a", "y", "e", "r", "1", ",", " ", "l", "a", "y", "e", "r",
         "2", ")">>,
      toCommand |-> <<"l", "a", "y", "e", "r", "1", " ", "+", "+", " ", "l",
        "a", "y", "e", "r", "2">>,
      note |-> <<"V", "e", "r", "t", "i", "c", "a", "l", " ", "l", "a", "y",
        "e", "r", " ", "c", "o", "m", "p", "o", "s", "i", "t", "i", "o", "n",
        " ", "(", "m", "e", "r", "g", "e", " ", "i", "n", "d", "e", "p", "e",
        "n", "d", "e", "n", "t", " ", "l", "a", "y", "e", "r", "s", ")">> ],
    [ id |-> "layers-3", category |-> "LAYERS",
      fromCommand |-> <<"E", "f", "f", "e", "c", "t", ".", "p", "r", "o", "v",
         "i", "d", "e", "(", "e", "f", "f", "e", "c", "t", ",", " ", "l", "a",
         "y", "e", "r", ")">>,
      toCommand |-> <<"e", "f", "f", "e", "c", "t", ".", "p", "r", "o", "v",
        "i", "d", "e", "L", "a", "y", "e", "r", "(", "l", "a", "y", "e", "r",
        ")">>,
      note |-> <<"P", "r", "o", "v", "i", "d", "e", " ", "l", "a", "y", "e",
        "r", "s", " ", "t", "o", " ", "a", "n", " ", "e", "f", "f", "e", "c",
        "t">> ],
    [ id |-> "layers-4", category |-> "LAYERS",
      fromCommand |-> <<"L", "a", "y", "e", "r", ".", "s", "c", "o", "p", "e",
         "d", "(", "T", "a", "g", ",", " ", "e", "f", "f", "e", "c", "t", ")"
        >>,
      toCommand |-> <<"Z", "L", "a", "y", "e", "r", ".", "s", "c", "o", "p",
        "e", "d", "(", ".", ".", ".", ")">>,
      note |-> <<"C", "r", "e", "a", "t", "e", " ", "a", " ", "l", "a", "y",
        "e", "r", " ", "w", "i", "t", "h", " ", "s", "c", "o", "p", "e", "d",
        " ", "r", "e", "s", "o", "u", "r", "c", "e", " ", "m", "a", "n", "a",
        "g", "e", "m", "e", "n", "t">> ],
    [ id |-> "concurrency-1", category |-> "CONCURRENCY",
      fromCommand |-> <<"E", "f", "f", "e", "c", "t", ".", "f", "o", "r", "k",
         "(", "f", "a", ")">>,
      toCommand |-> <<"f", "a", ".", "f", "o", "r", "k">>,
      note |-> <<"R", "u", "n", " ", "e", "f", "f", "e", "c", "t", " ", "c",
        "o", "n", "c", "u", "r", "r", "e", "n", "t", "l", "y", " ", "i", "n",
        " ", "a", " ", "f", "i", "b", "e", "r">> ],
    [ id |-> "concurrency-2", category |-> "CONCURRENCY",
      fromCommand |-> <<"F", "i", "b", "e", "r", ".", "j", "o", "i", "n", "(",
         "f", "i", "b", "e", "r", ")">>,
      toCommand |-> <<"f", "i", "b", "e", "r", ".", "j", "o", "i", "n">>,
      note |-> <<"W", "a", "i", "t", " ", "f", "o", "r", " ", "f", "i", "b",
        "e", "r", " ", "t", "o", " ", "c", "o", "m", "p", "l", "e", "t", "e",
        " ", "a", "n", "d", " ", "g", "e", "t", " ", "r", "e", "s", "u", "l",
        "t">> ],
    [ id |-> "concurrency-3", category |-> "CONCURRENCY",
      fromCommand |-> <<"F", "i", "b", "e", "r", ".", "i", "n", "t", "e", "r",
         "r", "u", "p", "t", "(", "f", "i", "b", "e", "r", ")">>,
      toCommand |-> <<"f", "i", "b", "e", "r", ".", "i", "n", "t", "e", "r",
        "r", "u", "p", "t">>,
      note |-> <<"C", "a", "n", "c", "e", "l", " ", "a", " ", "r", "u", "n",
        "n", "i", "n", "g", " ", "f", "i", "b", "e", "r">> ],
    [ id |-> "concurrency-4", category |-> "CONCURRENCY",
      fromCommand |-> <<"E", "f", "f", "e", "c", "t", ".", "a", "l", "l", "(",
         "e", "f", "f", "e", "c", "t", "s", ",", " ", "{", " ", "c", "o", "n",
         "c", "u", "r", "r", "e", "n", "c", "y", " ", "}", ")">>,
      toCommand |-> <<"Z", "I", "O", ".", "c", "o", "l", "l", "e", "c", "t",
        "A", "l", "l", "P", "a", "r", "(", "e", "f", "f", "e", "c", "t", "s",
        ")">>,
      note |-> <<"R", "u", "n", " ", "e", "f", "f", "e", "c", "t", "s", " ",
        "i", "n", " ", "p", "a", "r", "a", "l", "l", "e", "l", " ", "w", "i",
        "t", "h", " ", "c", "o", "n", "c", "u", "r", "r", "e", "n", "c", "y",
        " ", "c", "o", "n", "t", "r", "o", "l">> ],
    [ id |-> "concurrency-5", category |-> "CONCURRENCY",
      fromCommand |-> <<"E", "f", "f", "e", "c", "t", ".", "r", "a", "c", "e",
         "(", "f", "a", ",", " ", "f", "b", ")">>,
      toCommand |-> <<"f", "a", ".", "r", "a", "c", "e", "(", "f", "b", ")">>,
      note |-> <<"R", "u", "n", " ", "b", "o", "t", "h", " ", "e", "f", "f",
        "e", "c", "t", "s", ",", " ", "r", "e", "t", "u", "r", "n", " ", "r",
        "e", "s", "u", "l", "t", " ", "o", "f", " ", "f", "i", "r", "s", "t",
        " ", "t", "o", " ", "s", "u", "c", "c", "e", "e", "d">> ],
    [ id |-> "concurrency-6", category |-> "CONCURRENCY",
      fromCommand |-> <<"R", "e", "f", ".", "m", "a", "k", "e", "(", "i", "n",
         "i", "t", "i", "a", "l", ")">>,
      toCommand |-> <<"R", "e", "f", ".", "m", "a", "k", "e", "(", "i", "n",
        "i", "t", "i", "a", "l", ")">>,
      note |-> <<"C", "r", "e", "a", "t", "e", " ", "a", "t", "o", "m", "i",
        "c", " ", "r", "e", "f", "e", "r", "e", "n", "c", "e", " ", "f", "o",
        "r", " ", "c", "o", "n", "c", "u", "r", "r", "e", "n", "t", " ", "s",
        "t", "a", "t", "e">> ],
    [ id |-> "concurrency-7", category |-> "CONCURRENCY",
      fromCommand |-> <<"R", "e", "f", ".", "g", "e", "t", "/", "s", "e", "t",
         "/", "u", "p", "d", "a", "t", "e", "(", "r", "e", "f", ",", " ", ".",
         ".", ".", ")">>,
      toCommand |-> <<"r", "e", "f", ".", "g", "e", "t", "/", "s", "e", "t",
        "/", "u", "p", "d", "a", "t", "e">>,
      note |-> <<"A", "t", "o", "m", "i", "c", " ", "o", "p", "e", "r", "a",
        "t", "i", "o", "n", "s", " ", "o", "n", " ", "R", "e", "f">> ],
    [ id |-> "streaming-1", category |-> "STREAMING",
      fromCommand |-> <<"S", "t", "r", "e", "a", "m", "<", "A", ",", " ", "E",
         ",", " ", "R", ">">>,
      toCommand |-> <<"Z", "S", "t", "r", "e", "a", "m", "[", "-", "R", ",",
        " ", "+", "E", ",", " ", "+", "O", "]">>,
      note |-> <<"S", "t", "r", "e", "a", "m", " ", "t", "y", "p", "e", " ",
        "w", "i", "t", "h", " ", "O", "u", "t", "p", "u", "t", " ", "(", "A",
        ")", " ", "f", "i", "r", "s", "t", ",", " ", "u", "n", "l", "i", "k",
        "e", " ", "Z", "S", "t", "r", "e", "a", "m">> ],
    [ id |-> "streaming-2", category |-> "STREAMING",
      fromCommand |-> <<"S", "t", "r", "e", "a", "m", ".", "s", "u", "c", "c",
         "e", "e", "d", "(", ".", ".", ".", ")">>,
      toCommand |-> <<"Z", "S", "t", "r", "e", "a", "m", "(", ".", ".", ".",
        ")">>,
      note |-> <<"C", "r", "e", "a", "t", "e", " ", "s", "t", "r", "e", "a",
        "m", " ", "f", "r", "o", "m", " ", "v", "a", "l", "u", "e", "s">> ],
    [ id |-> "streaming-3", category |-> "STREAMING",
      fromCommand |-> <<"S", "t", "r", "e", "a", "m", ".", "m", "a", "p", "/",
         "f", "l", "a", "t", "M", "a", "p", "/", "f", "i", "l", "t", "e", "r",
         "(", "s", "t", "r", "e", "a", "m", ",", " ", "f", ")">>,
      toCommand |-> <<"s", "t", "r", "e", "a", "m", ".", "m", "a", "p", "/",
        "f", "l", "a", "t", "M", "a", "p", "/", "f", "i", "l", "t", "e", "r"
        >>,
      note |-> <<"S", "t", "r", "e", "a", "m", " ", "t", "r", "a", "n", "s",
        "f", "o", "r", "m", "a", "t", "i", "o", "n", "s", " ", "u", "s", "e",
        " ", "p", "i", "p", "e", " ", "s", "y", "n", "t", "a", "x">> ],
    [ id |-> "streaming-4", category |-> "STREAMING",
      fromCommand |-> <<"S", "t", "r", "e", "a", "m", ".", "r", "u", "n", "C",
         "o", "l", "l", "e", "c", "t", "(", "s", "t", "r", "e", "a", "m", ")"
        >>,
      toCommand |-> <<"s", "t", "r", "e", "a", "m", ".", "r", "u", "n", "C",
        "o", "l", "l", "e", "c", "t">>,
      note |-> <<"C", "o", "l", "l", "e", "c", "t", " ", "s", "t", "r", "e",
        "a", "m", " ", "e", "l", "e", "m", "e", "n", "t", "s", " ", "i", "n",
        "t", "o", " ", "a", "r", "r", "a", "y">> ],
    [ id |-> "streaming-5", category |-> "STREAMING",
      fromCommand |-> <<"S", "i", "n", "k", ".", "c", "o", "u", "n", "t", "/",
         "l", "a", "s", "t", "/", ".", ".", ".">>,
      toCommand |-> <<"Z", "S", "i", "n", "k", ".", "c", "o", "u", "n", "t",
        "/", "l", "a", "s", "t", "/", ".", ".", ".">>,
      note |-> <<"A", "g", "g", "r", "e", "g", "a", "t", "o", "r", "s", " ",
        "f", "o", "r", " ", "s", "t", "r", "e", "a", "m", " ", "c", "o", "n",
        "s", "u", "m", "p", "t", "i", "o", "n">> ],
    [ id |-> "schema-1", category |-> "SCHEMA",
      fromCommand |-> <<"S", "c", "h", "e", "m", "a", "<", "A", ">">>,
      toCommand |-> <<"S", "c", "h", "e", "m", "a", "[", "A", "]">>,
      note |-> <<"R", "u", "n", "t", "i", "m", "e", " ", "t", "y", "p", "e",
        " ", "v", "a", "l", "i", "d", "a", "t", "i", "o", "n", " ", "a", "n",
        "d", " ", "t", "r", "a", "n", "s", "f", "o", "r", "m", "a", "t", "i",
        "o", "n">> ],
    [ id |-> "schema-2", category |-> "SCHEMA",
      fromCommand |-> <<"S", "c", "h", "e", "m", "a", ".", "d", "e", "c", "o",
         "d", "e", "U", "n", "k", "n", "o", "w", "n", "(", "s", "c", "h", "e",
         "m", "a", ")", "(", "d", "a", "t", "a", ")">>,
      toCommand |-> <<"s", "c", "h", "e", "m", "a", ".", "d", "e", "c", "o",
        "d", "e", "(", "d", "a", "t", "a", ")">>,
      note |-> <<"P", "a", "r", "s", "e", "/", "v", "a", "l", "i", "d", "a",
        "t", "e", " ", "u", "n", "k", "n", "o", "w", "n", " ", "d", "a", "t",
        "a", " ", "i", "n", "t", "o", " ", "t", "y", "p", "e", "d", " ", "v",
        "a", "l", "u", "e">> ],
    [ id |-> "schema-3", category |-> "SCHEMA",
      fromCommand |-> <<"S", "c", "h", "e", "m", "a", ".", "o", "p", "t", "i",
         "o", "n", "a", "l", "(", "S", "c", "h", "e", "m", "a", ".", "S", "t",
         "r", "i", "n", "g", ")">>,
      toCommand |-> <<"O", "p", "t", "i", "o", "n", "[", "S", "t", "r", "i",
        "n", "g", "]">>,
      note |-> <<"O", "p", "t", "i", "o", "n", "a", "l", "/", "n", "u", "l",
        "l", "a", "b", "l", "e", " ", "f", "i", "e", "l", "d", " ", "i", "n",
        " ", "s", "c", "h", "e", "m", "a">> ],
    [ id |-> "http-1", category |-> "HTTP",
      fromCommand |-> <<"H", "t", "t", "p", "C", "l", "i", "e", "n", "t", " ",
         "s", "e", "r", "v", "i", "c", "e">>,
      toCommand |-> <<"C", "l", "i", "e", "n", "t", ".", "s", "e", "r", "v",
        "i", "c", "e", " ", "(", "Z", "I", "O", " ", "H", "T", "T", "P", ")"
        >>,
      note |-> <<"H", "T", "T", "P", " ", "c", "l", "i", "e", "n", "t", " ",
        "s", "e", "r", "v", "i", "c", "e", " ", "f", "r", "o", "m", " ", "@",
        "e", "f", "f", "e", "c", "t", "/", "p", "l", "a", "t", "f", "o", "r",
        "m">> ],
    [ id |-> "http-2", category |-> "HTTP",
      fromCommand |-> <<"c", "l", "i", "e", "n", "t", ".", "g", "e", "t", "/",
         "p", "o", "s", "t", "(", "u", "r", "l", ",", " ", "o", "p", "t", "i",
         "o", "n", "s", ")">>,
      toCommand |-> <<"C", "l", "i", "e", "n", "t", ".", "g", "e", "t", "/",
        "p", "o", "s", "t", "(", "u", "r", "l", ",", " ", ".", ".", ".", ")"
        >>,
      note |-> <<"H", "T", "T", "P", " ", "m", "e", "t", "h", "o", "d", "s",
        " ", "r", "e", "t", "u", "r", "n", " ", "H", "t", "t", "p", "C", "l",
        "i", "e", "n", "t", "R", "e", "s", "p", "o", "n", "s", "e", " ", "e",
        "f", "f", "e", "c", "t">> ],
    [ id |-> "http-3", category |-> "HTTP",
      fromCommand |-> <<"r", "e", "s", "p", "o", "n", "s", "e", ".", "j", "s",
         "o", "n", "/", "t", "e", "x", "t">>,
      toCommand |-> <<"r", "e", "s", "p", "o", "n", "s", "e", ".", "b", "o",
        "d", "y", ".", "a", "s", "S", "t", "r", "i", "n", "g">>,
      note |-> <<"G", "e", "t", " ", "r", "e", "s", "p", "o", "n", "s", "e",
        " ", "b", "o", "d", "y", " ", "a", "s", " ", "p", "a", "r", "s", "e",
        "d", " ", "J", "S", "O", "N", " ", "o", "r", " ", "t", "e", "x", "t">>
         ],
    [ id |-> "sql-1", category |-> "SQL",
      fromCommand |-> <<"S", "q", "l", "C", "l", "i", "e", "n", "t", " ", "s",
         "e", "r", "v", "i", "c", "e">>,
      toCommand |-> <<"J", "d", "b", "c", "S", "e", "r", "v", "i", "c", "e",
        " ", "(", "Z", "I", "O", " ", "J", "D", "B", "C", ")">>,
      note |-> <<"D", "a", "t", "a", "b", "a", "s", "e", " ", "c", "l", "i",
        "e", "n", "t", " ", "s", "e", "r", "v", "i", "c", "e", " ", "f", "r",
        "o", "m", " ", "@", "e", "f", "f", "e", "c", "t", "/", "s", "q", "l">>
         ],
    [ id |-> "sql-2", category |-> "SQL",
      fromCommand |-> <<"s", "q", "l", "U+0060", "S", "E", "L", "E", "C", "T",
         " ", ".", ".", ".", " ", "W", "H", "E", "R", "E", " ", "i", "d", " ",
         "=", " ", "$", "{", "i", "d", "}", "U+0060">>,
      toCommand |-> <<"s", "q", "l", "\"", "S", "E", "L", "E", "C", "T", " ",
        ".", ".", ".", " ", "W", "H", "E", "R", "E", " ", "i", "d", " ", "=",
        " ", "$", "i", "d", "\"">>,
      note |-> <<"T", "e", "m", "p", "l", "a", "t", "e", " ", "l", "i", "t",
        "e", "r", "a", "l", " ", "S", "Q", "L", " ", "w", "i", "t", "h", " ",
        "a", "u", "t", "o", "m", "a", "t", "i", "c", " ", "p", "a", "r", "a",
        "m", "e", "t", "e", "r", "i", "z", "a", "t", "i", "o", "n">> ],
    [ id |-> "sql-3", category |-> "SQL",
      fromCommand |-> <<"S", "q", "l", "C", "l", "i", "e", "n", "t", ".", "t",
         "r", "a", "n", "s", "a", "c", "t", "i", "o", "n", "(", "e", "f", "f",
         "e", "c", "t", ")">>,
      toCommand |-> <<"j", "d", "b", "c", ".", "t", "r", "a", "n", "s", "a",
        "c", "t", "i", "o", "n", " ", "{", " ", ".", ".", ".", " ", "}">>,
      note |-> <<"R", "u", "n", " ", "e", "f", "f", "e", "c", "t", "s", " ",
        "i", "n", " ", "a", " ", "d", "a", "t", "a", "b", "a", "s", "e", " ",
        "t", "r", "a", "n", "s", "a", "c", "t", "i", "o", "n">> ]
  >>

(***************************************************************************)
(* Entry Registry and Legacy Adapter (pairings.ts).                        *)
(***************************************************************************)
\* The module-load value of the legacy array: toolEntries.filter(isPairing).
toolPairingsOf(entries) ==
  ArrayFilter(entries, [i \in 1..Len(entries) |-> isPairing(entries[i])])

getEntry_FirstPairingOnly(s) ==
  NullishCoalesce(
    ArrayFind(toolPairings,
              [i \in 1..Len(toolPairings) |-> toolPairings[i].slug = s]),
    null)

\* getEntry with a predicate that accepts every entry
getEntry_AnyEntry(s) ==
  NullishCoalesce(
    ArrayFind(toolEntries, [i \in 1..Len(toolEntries) |-> TRUE]),
    null)

getEntry(s) ==
  NullishCoalesce(
    ArrayFind(toolEntries,
              [i \in 1..Len(toolEntries) |-> toolEntries[i].slug = s]),
    null)

getPairing_NoModeCheck(s) ==
  LET entry == getEntry(s) IN IF entry # null THEN entry ELSE null

\* the outcome of a call that throws
Raised == [tag |-> "raised"]

\* getPairing without the `entry &&` guard: isPairing(null) reads null.mode
getPairing_UnguardedEntry(s) ==
  LET entry == getEntry(s)
  IN  IF entry = null THEN Raised
      ELSE IF isPairing(entry) THEN entry ELSE null

getPairing(s) ==
  LET entry == getEntry(s)
  IN  IF entry # null /\ isPairing(entry) THEN entry ELSE null

getPublishedEntries_PairingsOnly ==
  ArrayFilter(toolEntries,
              [i \in 1..Len(toolEntries) |->
                 toolEntries[i].status = "published" /\ isPairing(toolEntries[i])])

getPublishedEntries ==
  ArrayFilter(toolEntries,
              [i \in 1..Len(toolEntries) |-> toolEntries[i].status = "published"])

getPublishedPairings_NoModeCheck ==
  ArrayFilter(toolEntries,
              [i \in 1..Len(toolEntries) |-> toolEntries[i].status = "published"])

getPublishedPairings ==
  ArrayFilter(toolEntries,
              [i \in 1..Len(toolEntries) |->
                 toolEntries[i].status = "published" /\ isPairing(toolEntries[i])])

\* A Record<string, T[]> under construction: its own keys in insertion order
\* (the order Object.keys and for-in give string keys) and the array of each.
EmptyGrouped == [keys |-> <<>>, vals |-> <<>>]

HasKey(grouped, key) == \E k \in 1..Len(grouped.keys) : grouped.keys[k] = key

KeyIndex(grouped, key) ==
  CHOOSE k \in 1..Len(grouped.keys) : grouped.keys[k] = key

\* grouped[key], for a key that is present
Lookup(grouped, key) == grouped.vals[KeyIndex(grouped, key)]

\* grouped[category] ??= [] ; grouped[category]?.push(entry)
\* with the push lost for the entry that creates the group
GroupPush_DropFirst(grouped, category, entry) ==
  IF HasKey(grouped, category)
  THEN [grouped EXCEPT !.vals[KeyIndex(grouped, category)] = Append(@, entry)]
  ELSE [keys |-> Append(grouped.keys, category),
        vals |-> Append(grouped.vals, <<>>)]

\* grouped[category] ??= [] ; grouped[category]?.unshift(entry)
GroupPush_Unshift(grouped, category, entry) ==
  LET g1 == IF ~HasKey(grouped, category)
            THEN [keys |-> Append(grouped.keys, category),
                  vals |-> Append(grouped.vals, <<>>)]
            ELSE grouped
  IN  [g1 EXCEPT !.vals[KeyIndex(g1, category)] = <<entry>> \o @]

\* grouped[category] ??= [] ; grouped[category]?.push(entry)
GroupPush(grouped, category, entry) ==
  LET g1 == IF ~HasKey(grouped, category)
            THEN [keys |-> Append(grouped.keys, category),
                  vals |-> Append(grouped.vals, <<>>)]
            ELSE grouped
  IN  IF ~HasKey(g1, category) THEN g1
      ELSE [g1 EXCEPT !.vals[KeyIndex(g1, category)] = Append(@, entry)]

\* for (const entry of toolEntries) { ... }, from index i on
RECURSIVE EntriesLoop(_, _)
EntriesLoop(i, grouped) ==
  IF i > Len(toolEntries) THEN grouped
  ELSE EntriesLoop(i + 1,
                   GroupPush(grouped, toolEntries[i].category, toolEntries[i]))

getEntriesByCategory == EntriesLoop(1, EmptyGrouped)

\* the pairing loop creating the group of an entry before testing its mode
RECURSIVE PairingsLoop_KeyBeforeTest(_, _)
PairingsLoop_KeyBeforeTest(i, grouped) ==
  IF i > Len(toolEntries) THEN grouped
  ELSE LET g1 == IF HasKey(grouped, toolEntries[i].category) THEN grouped
                 ELSE [keys |-> Append(grouped.keys, toolEntries[i].category),
                       vals |-> Append(grouped.vals, <<>>)]
       IN  IF ~isPairing(toolEntries[i])
           THEN PairingsLoop_KeyBeforeTest(i + 1, g1)
           ELSE PairingsLoop_KeyBeforeTest(
                  i + 1, GroupPush(g1, toolEntries[i].category, toolEntries[i]))

\* the same loop with: if (!isPairing(entry)) continue
RECURSIVE PairingsLoop(_, _)
PairingsLoop(i, grouped) ==
  IF i > Len(toolEntries) THEN grouped
  ELSE IF ~isPairing(toolEntries[i]) THEN PairingsLoop(i + 1, grouped)
  ELSE PairingsLoop(i + 1,
                    GroupPush(grouped, toolEntries[i].category, toolEntries[i]))

getPairingsByCategory_NoModeCheck == EntriesLoop(1, EmptyGrouped)

getPairingsByCategory == PairingsLoop(1, EmptyGrouped)

isValidEntrySlug_PairingsOnly(s) ==
  ArraySome(toolEntries,
            [i \in 1..Len(toolEntries) |->
               toolEntries[i].slug = s /\ isPairing(toolEntries[i])])

isValidEntrySlug(s) ==
  ArraySome(toolEntries,
            [i \in 1..Len(toolEntries) |-> toolEntries[i].slug = s])

isValidPairingSlug_NoModeCheck(s) ==
  ArraySome(toolEntries,
            [i \in 1..Len(toolEntries) |-> toolEntries[i].slug = s])

isValidPairingSlug(s) ==
  ArraySome(toolEntries,
            [i \in 1..Len(toolEntries) |->
               toolEntries[i].slug = s /\ isPairing(toolEntries[i])])

(***************************************************************************)
(* Strings that are searched: sequences of characters.                     *)
(***************************************************************************)
UpperLetters ==
  <<"A", "B", "C", "D", "E", "F", "G", "H", "I", "J", "K", "L", "M",
    "N", "O", "P", "Q", "R", "S", "T", "U", "V", "W", "X", "Y", "Z">>

LowerLetters ==
  <<"a", "b", "c", "d", "e", "f", "g", "h", "i", "j", "k", "l", "m",
    "n", "o", "p", "q", "r", "s", "t", "u", "v", "w", "x", "y", "z">>

\* the sharp s, U+00DF: a lower-case letter whose upper case is "SS"
SharpS == "U+00DF"

LowerMap ==
  [c \in Range(UpperLetters) |->
     LowerLetters[CHOOSE k \in 1..Len(UpperLetters) : UpperLetters[k] = c]]

UpperMap ==
  [c \in Range(LowerLetters) |->
     UpperLetters[CHOOSE k \in 1..Len(LowerLetters) : LowerLetters[k] = c]]

\* String.prototype.toLowerCase on one character (a sequence: a character
\* may map to more than one).  Of the characters that occur here only the
\* letters A-Z change; the sharp s is lower case already.
LowerOfChar(c) == IF c \in DOMAIN LowerMap THEN <<LowerMap[c]>> ELSE <<c>>

\* String.prototype.toUpperCase on one character: a-z, and the sharp s,
\* which has no single upper-case character and becomes "SS".
UpperOfChar(c) ==
  IF c \in DOMAIN UpperMap THEN <<UpperMap[c]>>
  ELSE IF c = SharpS THEN <<"S", "S">>
  ELSE <<c>>

\* the characters are mapped one by one; the string is halved so that the
\* recursion stays shallow on the long notes of the shipped tables
RECURSIVE toLowerCase(_)
toLowerCase(str) ==
  IF Len(str) = 0 THEN <<>>
  ELSE IF Len(str) = 1 THEN LowerOfChar(str[1])
  ELSE toLowerCase(SubSeq(str, 1, Len(str) \div 2))
       \o toLowerCase(SubSeq(str, Len(str) \div 2 + 1, Len(str)))

RECURSIVE toUpperCase(_)
toUpperCase(str) ==
  IF Len(str) = 0 THEN <<>>
  ELSE IF Len(str) = 1 THEN UpperOfChar(str[1])
  ELSE toUpperCase(SubSeq(str, 1, Len(str) \div 2))
       \o toUpperCase(SubSeq(str, Len(str) \div 2 + 1, Len(str)))

\* String.prototype.includes: needle occurs in hay as a contiguous run
includes(hay, needle) ==
  \E i \in 0..(Len(hay) - Len(needle)) :
    SubSeq(hay, i + 1, i + Len(needle)) = needle

\* ToBoolean of a string: only the empty string is falsy
Truthy(str) == Len(str) > 0

(***************************************************************************)
(* Row Table Query Layer: searchEntries of each table module.              *)
(***************************************************************************)
\* ToBoolean(entry.note) of a cheat-sheet row, whose note is optional:
\* falsy when the note is absent (undefined) or empty
NoteTruthy(entry) == "note" \in DOMAIN entry /\ Truthy(entry.note)

\* the filter callback looking at the note only
GlossaryMatches_NoteOnly(entry, lowerQuery) ==
  includes(toLowerCase(entry.note), lowerQuery)

\* the filter callback of the glossary searchEntries
GlossaryMatches(entry, lowerQuery) ==
  \/ includes(toLowerCase(entry.fromCommand), lowerQuery)
  \/ includes(toLowerCase(entry.toCommand), lowerQuery)
  \/ includes(toLowerCase(entry.note), lowerQuery)

\* the filter callback of the cheat-sheet searchEntries
CheatSheetMatches(entry, lowerQuery) ==
  \/ includes(toLowerCase(entry.command), lowerQuery)
  \/ includes(toLowerCase(entry.description), lowerQuery)
  \/ (NoteTruthy(entry) /\ includes(toLowerCase(entry.note), lowerQuery))

\* searchEntries testing the trimmed query for emptiness
jjGit_searchEntries_Trimmed(entries, q) ==
  IF \A k \in 1..Len(q) : q[k] = " " THEN entries
  ELSE LET lowerQuery == toLowerCase(q)
       IN  ArrayFilter(entries,
             [i \in 1..Len(entries) |-> GlossaryMatches(entries[i], lowerQuery)])

jjGit_searchEntries_EmptyOnEmptyQuery(entries, q) ==
  IF ~Truthy(q) THEN <<>>
  ELSE LET lowerQuery == toLowerCase(q)
       IN  ArrayFilter(entries,
             [i \in 1..Len(entries) |-> GlossaryMatches(entries[i], lowerQuery)])

\* searchEntries of the jj/git glossary module
jjGit_searchEntries(entries, q) ==
  IF ~Truthy(q) THEN entries
  ELSE LET lowerQuery == toLowerCase(q)
       IN  ArrayFilter(entries,
             [i \in 1..Len(entries) |-> GlossaryMatches(entries[i], lowerQuery)])

\* searchEntries of the ZIO/Cats glossary module
zioCats_searchEntries(entries, q) ==
  IF ~Truthy(q) THEN entries
  ELSE LET lowerQuery == toLowerCase(q)
       IN  ArrayFilter(entries,
             [i \in 1..Len(entries) |-> GlossaryMatches(entries[i], lowerQuery)])

\* which array searchEntries returns: its argument (return entries) when the
\* query is falsy, else the one filter built
searchEntries_returned(q) == IF ~Truthy(q) THEN "rows" ELSE "fresh"

\* searchEntries of the tmux cheat-sheet module
tmux_searchEntries(entries, q) ==
  IF ~Truthy(q) THEN entries
  ELSE LET lowerQuery == toLowerCase(q)
       IN  ArrayFilter(entries,
             [i \in 1..Len(entries) |-> CheatSheetMatches(entries[i], lowerQuery)])

(***************************************************************************)
(* The arguments callers pass.                                             *)
(***************************************************************************)
MaxRows == 2

\* slugs of the registry, of the commented-out future pairings, and strings
\* that are no slug (unknown, empty, other case, padded, fragments)
SlugInputs ==
  {"zio-cats", "jj-git", "effect-zio", "tmux", "pijul-git", "nix-brew",
   "does-not-exist", "", "JJ-GIT", "jj-git ", "jj", "git"}

\* "aB" and "ss c"
FieldStrings == {<<"a", "B">>, <<"s", "s", " ", "c">>}

\* a note is empty or "ss c"
NoteStrings == {<<>>, <<"s", "s", " ", "c">>}

\* "", "b", "Ab", " ", "z" and the sharp s
Queries == {<<>>, <<"b">>, <<"A", "b">>, <<" ">>, <<"z">>, <<SharpS>>}

\* the glossary rows a caller may put at position i (the id names the position)
GlossaryRowsAt(i) ==
  [id : {ToString(i)}, category : {"BASICS"},
   fromCommand : FieldStrings, toCommand : FieldStrings, note : NoteStrings]

\* the cheat-sheet rows a caller may put at position i, with and without note
CheatSheetRowsAt(i) ==
  [id : {ToString(i)}, category : {"SESSIONS"},
   command : FieldStrings, description : FieldStrings, note : NoteStrings]
  \cup
  [id : {ToString(i)}, category : {"SESSIONS"},
   command : FieldStrings, description : FieldStrings]

RECURSIVE GlossaryTablesOfLen(_)
GlossaryTablesOfLen(n) ==
  IF n = 0 THEN {<<>>}
  ELSE {Append(t, r) : t \in GlossaryTablesOfLen(n - 1), r \in GlossaryRowsAt(n)}

RECURSIVE CheatSheetTablesOfLen(_)
CheatSheetTablesOfLen(n) ==
  IF n = 0 THEN {<<>>}
  ELSE {Append(t, r) : t \in CheatSheetTablesOfLen(n - 1), r \in CheatSheetRowsAt(n)}

GlossaryTables == UNION {GlossaryTablesOfLen(n) : n \in 0..MaxRows}

CheatSheetTables == UNION {CheatSheetTablesOfLen(n) : n \in 0..MaxRows}

IsGlossaryTable(t) == \A i \in 1..Len(t) : "fromCommand" \in DOMAIN t[i]

IsCheatSheetTable(t) == \A i \in 1..Len(t) : "command" \in DOMAIN t[i]

(***************************************************************************)
(* The state machine: the module is loaded, then operations are called.    *)
(***************************************************************************)
\* module evaluation of a registry whose single-tool entry carries the tag of
\* a comparison entry
Loaded_MistaggedEntry ==
  /\ toolEntries = [ToolEntriesData EXCEPT ![Len(ToolEntriesData)].mode = "pairing"]
  /\ toolPairings = toolPairingsOf(toolEntries)
  /\ op = "init"
  /\ ret = undefined
  /\ alias = "none"

\* module evaluation of a registry whose last entry repeats the first slug
Loaded_DuplicateSlug ==
  /\ toolEntries =
       [ToolEntriesData EXCEPT ![Len(ToolEntriesData)].slug = ToolEntriesData[1].slug]
  /\ toolPairings = toolPairingsOf(toolEntries)
  /\ op = "init"
  /\ ret = undefined
  /\ alias = "none"

Loaded ==
  /\ toolEntries = ToolEntriesData
  /\ toolPairings = toolPairingsOf(ToolEntriesData)
  /\ op = "init"
  /\ ret = undefined
  /\ alias = "none"

\* module evaluation of tables in which the first and the last jj/git row
\* have changed places
TablesLoaded_RowsSwapped ==
  /\ jjGitGlossary =
       [jjGitGlossaryData EXCEPT
          ![1] = jjGitGlossaryData[Len(jjGitGlossaryData)],
          ![Len(jjGitGlossaryData)] = jjGitGlossaryData[1]]
  /\ zioCatsGlossary = zioCatsGlossaryData
  /\ tmuxCheatSheet = tmuxCheatSheetData
  /\ effectZioGlossary = effectZioGlossaryData

\* module evaluation of tables in which the ZIO/Cats glossary has no STM row
TablesLoaded_NoStmRows ==
  /\ jjGitGlossary = jjGitGlossaryData
  /\ zioCatsGlossary =
       ArrayFilter(zioCatsGlossaryData,
                   [i \in 1..Len(zioCatsGlossaryData) |->
                      zioCatsGlossaryData[i].category # "STM"])
  /\ tmuxCheatSheet = tmuxCheatSheetData
  /\ effectZioGlossary = effectZioGlossaryData

\* module evaluation of tables in which the second jj/git row repeats the id
\* of the first
TablesLoaded_DuplicateId ==
  /\ jjGitGlossary = [jjGitGlossaryData EXCEPT ![2].id = jjGitGlossaryData[1].id]
  /\ zioCatsGlossary = zioCatsGlossaryData
  /\ tmuxCheatSheet = tmuxCheatSheetData
  /\ effectZioGlossary = effectZioGlossaryData

TablesLoaded ==
  /\ jjGitGlossary = jjGitGlossaryData
  /\ zioCatsGlossary = zioCatsGlossaryData
  /\ tmuxCheatSheet = tmuxCheatSheetData
  /\ effectZioGlossary = effectZioGlossaryData

Init ==
  /\ Loaded
  /\ TablesLoaded
  /\ slug \in SlugInputs
  /\ rows = <<>>
  /\ query = <<>>
  /\ categoryArg = ""

InitTable ==
  /\ Loaded
  /\ TablesLoaded
  /\ slug = ""
  /\ rows \in GlossaryTables \cup CheatSheetTables
  /\ query \in Queries
  /\ categoryArg = ""

snapshot == <<toolEntries, toolPairings, tables>>

inputs == <<snapshot, slug, rows, query, categoryArg>>

GetEntry ==
  /\ op' = "getEntry"
  /\ ret' = getEntry(slug)
  /\ alias' = "none"
  /\ UNCHANGED inputs

GetPairing ==
  /\ op' = "getPairing"
  /\ ret' = getPairing(slug)
  /\ alias' = "none"
  /\ UNCHANGED inputs

GetPublishedEntries ==
  /\ op' = "getPublishedEntries"
  /\ ret' = getPublishedEntries
  /\ alias' = "fresh"
  /\ UNCHANGED inputs

GetPublishedPairings ==
  /\ op' = "getPublishedPairings"
  /\ ret' = getPublishedPairings
  /\ alias' = "fresh"
  /\ UNCHANGED inputs

\* getEntriesByCategory ordering the registry in place before grouping it
GetEntriesByCategory_ReversesRegistry ==
  /\ op' = "getEntriesByCategory"
  /\ ret' = getEntriesByCategory
  /\ alias' = "fresh"
  /\ toolEntries' = [i \in 1..Len(toolEntries) |->
                       toolEntries[Len(toolEntries) + 1 - i]]
  /\ UNCHANGED <<toolPairings, tables, slug, rows, query, categoryArg>>

GetEntriesByCategory ==
  /\ op' = "getEntriesByCategory"
  /\ ret' = getEntriesByCategory
  /\ alias' = "fresh"
  /\ UNCHANGED inputs

GetPairingsByCategory ==
  /\ op' = "getPairingsByCategory"
  /\ ret' = getPairingsByCategory
  /\ alias' = "fresh"
  /\ UNCHANGED inputs

IsValidEntrySlug ==
  /\ op' = "isValidEntrySlug"
  /\ ret' = isValidEntrySlug(slug)
  /\ alias' = "none"
  /\ UNCHANGED inputs

IsValidPairingSlug ==
  /\ op' = "isValidPairingSlug"
  /\ ret' = isValidPairingSlug(slug)
  /\ alias' = "none"
  /\ UNCHANGED inputs

JjGitSearchEntries ==
  /\ IsGlossaryTable(rows)
  /\ op' = "jjGit.searchEntries"
  /\ ret' = jjGit_searchEntries(rows, query)
  /\ alias' = searchEntries_returned(query)
  /\ UNCHANGED inputs

ZioCatsSearchEntries ==
  /\ IsGlossaryTable(rows)
  /\ op' = "zioCats.searchEntries"
  /\ ret' = zioCats_searchEntries(rows, query)
  /\ alias' = searchEntries_returned(query)
  /\ UNCHANGED inputs

TmuxSearchEntries ==
  /\ IsCheatSheetTable(rows)
  /\ op' = "tmux.searchEntries"
  /\ ret' = tmux_searchEntries(rows, query)
  /\ alias' = searchEntries_returned(query)
  /\ UNCHANGED inputs

Next ==
  \/ GetEntry
  \/ GetPairing
  \/ GetPublishedEntries
  \/ GetPublishedPairings
  \/ GetEntriesByCategory
  \/ GetPairingsByCategory
  \/ IsValidEntrySlug
  \/ IsValidPairingSlug

NextTable ==
  \/ JjGitSearchEntries
  \/ ZioCatsSearchEntries
  \/ TmuxSearchEntries

Spec == Init /\ [][Next]_vars

SpecTable == InitTable /\ [][NextTable]_vars

(***************************************************************************)
(* Properties.  A subsequence is described by the set of positions kept,   *)
(* independently of how filter builds it.                                  *)
(***************************************************************************)
\* the k-th smallest member of a set of positions
KthOf(S, k) == CHOOSE i \in S : Cardinality({j \in S : j < i}) = k - 1

\* the elements of seq at the positions in S, in increasing position
SelectedAt(seq, S) == [k \in 1..Cardinality(S) |-> seq[KthOf(S, k)]]

\* the group listed under a category by a grouping result, none when no key
GroupOf(grouped, category) ==
  IF HasKey(grouped, category) THEN Lookup(grouped, category) ELSE <<>>

\* how often an entry occurs in the groups of a grouping result
Occurrences(grouped, entry) ==
  {kj \in UNION {{<<k, j>> : j \in 1..Len(grouped.vals[k])} :
                   k \in 1..Len(grouped.keys)} :
     grouped.vals[kj[1]][kj[2]] = entry}

\* C1: getEntry(s) returns a registry entry whose slug is s when some entry
\* (pairing or single-tool) has slug s, and null otherwise.
C1_GetEntryBySlug ==
  op = "getEntry" =>
    IF \E i \in 1..Len(toolEntries) : toolEntries[i].slug = slug
    THEN ret # null /\ ret \in Range(toolEntries) /\ ret.slug = slug
    ELSE ret = null

C1_Witness ==
  op = "getEntry" /\ slug = "tmux" /\ ret # null /\ ret.mode = "tutorial"

\* C2: isValidEntrySlug(s) is true exactly when getEntry(s) is not null.
C2_ValidIffFound ==
  op = "isValidEntrySlug" => (ret <=> getEntry(slug) # null)

C2_Witness ==
  op = "isValidEntrySlug" /\ slug = "tmux" /\ ret = TRUE

\* C3: getPublishedEntries() is the registry restricted to the entries whose
\* status is "published", none missing, none other, in registry order.
C3_PublishedEntries ==
  op = "getPublishedEntries" =>
    /\ ret = SelectedAt(toolEntries,
                        {i \in 1..Len(toolEntries) :
                           toolEntries[i].status = "published"})
    /\ \A k \in 1..Len(ret) : ret[k].status = "published"

C3_Witness ==
  /\ op = "getPublishedEntries"
  /\ \E k \in 1..Len(ret) : isTutorial(ret[k])
  /\ \E k \in 1..Len(ret) : isPairing(ret[k])

\* C4: getEntriesByCategory() partitions the registry: every registry entry
\* occurs exactly once over all groups, under the key of its own category,
\* and every member of a group is a registry entry.
C4_GroupsPartition ==
  op = "getEntriesByCategory" =>
    /\ \A i \in 1..Len(toolEntries) :
         /\ Cardinality(Occurrences(ret, toolEntries[i])) = 1
         /\ \A kj \in Occurrences(ret, toolEntries[i]) :
              ret.keys[kj[1]] = toolEntries[i].category
    /\ \A k \in 1..Len(ret.keys) : \A j \in 1..Len(ret.vals[k]) :
         ret.vals[k][j] \in Range(toolEntries)
    /\ \A k1, k2 \in 1..Len(ret.keys) : ret.keys[k1] = ret.keys[k2] => k1 = k2

C4_Witness ==
  /\ op = "getEntriesByCategory"
  /\ Len(ret.keys) > 1
  /\ \E k \in 1..Len(ret.keys) : Len(ret.vals[k]) > 1

\* the registry positions at which a category is met for the first time
FirstSeenAt ==
  {i \in 1..Len(toolEntries) :
     \A j \in 1..(i - 1) : toolEntries[j].category # toolEntries[i].category}

\* the categories that occur in the registry, in the declared canonical order
CanonicalPresent ==
  SelectedAt(EntryCategories,
             {c \in 1..Len(EntryCategories) :
                \E i \in 1..Len(toolEntries) :
                  toolEntries[i].category = EntryCategories[c]})

\* C5: the keys of getEntriesByCategory() are in first-seen order of the
\* registry scan, and each group keeps its entries in registry order.
C5_FirstSeenOrder ==
  op = "getEntriesByCategory" =>
    /\ ret.keys = [k \in 1..Cardinality(FirstSeenAt) |->
                     toolEntries[KthOf(FirstSeenAt, k)].category]
    /\ \A k \in 1..Len(ret.keys) :
         ret.vals[k] = SelectedAt(toolEntries,
                                  {i \in 1..Len(toolEntries) :
                                     toolEntries[i].category = ret.keys[k]})

\* first-seen order and canonical order differ on the registry, and a group
\* holds entries that are not adjacent in the registry
C5_Witness ==
  /\ op = "getEntriesByCategory"
  /\ ret.keys # CanonicalPresent
  /\ \E k \in 1..Len(ret.keys) :
       /\ Len(ret.vals[k]) = 2
       /\ ret.vals[k][1] = toolEntries[1]
       /\ ret.vals[k][2] = toolEntries[3]

\* C6: getPairing(s) is getEntry(s) when that entry is a pairing, and null
\* otherwise; null for the slug of the single-tool entry "tmux".
C6_GetPairing ==
  op = "getPairing" =>
    /\ IF \E i \in 1..Len(toolEntries) :
            toolEntries[i].slug = slug /\ toolEntries[i].mode = "pairing"
       THEN ret = getEntry(slug) /\ ret.mode = "pairing"
       ELSE ret = null
    /\ slug = "tmux" => ret = null

C6_Witness ==
  op = "getPairing" /\ slug = "tmux" /\ getEntry(slug) # null /\ ret = null

\* C7: getPublishedPairings() is getPublishedEntries() with the single-tool
\* entries removed, order kept.
C7_PublishedPairings ==
  op = "getPublishedPairings" =>
    ret = SelectedAt(getPublishedEntries,
                     {k \in 1..Len(getPublishedEntries) :
                        ~isTutorial(getPublishedEntries[k])})

C7_Witness ==
  /\ op = "getPublishedPairings"
  /\ Len(ret) > 0
  /\ Len(ret) < Len(getPublishedEntries)

\* C8: isValidPairingSlug(s), getPairing(s) being found, toolPairings holding
\* an entry of slug s, and isValidEntrySlug(s) with getEntry(s) a pairing all
\* agree.
C8_LegacyViewsAgree ==
  op = "isValidPairingSlug" =>
    /\ ret <=> getPairing(slug) # null
    /\ ret <=> \E i \in 1..Len(toolPairings) : toolPairings[i].slug = slug
    /\ ret <=> (isValidEntrySlug(slug) /\ isPairing(getEntry(slug)))

C8_Witness ==
  /\ op = "isValidPairingSlug"
  /\ slug = "tmux"
  /\ isValidEntrySlug(slug)
  /\ ret = FALSE

\* C9: under every category, getPairingsByCategory() lists exactly the
\* pairing entries getEntriesByCategory() lists there, in the same order, and
\* no single-tool entry is in any group.
C9_PairingsByCategory ==
  op = "getPairingsByCategory" =>
    /\ \A c \in Range(EntryCategories) \cup Range(ret.keys)
                  \cup Range(getEntriesByCategory.keys) :
         GroupOf(ret, c) =
           SelectedAt(GroupOf(getEntriesByCategory, c),
                      {j \in 1..Len(GroupOf(getEntriesByCategory, c)) :
                         isPairing(GroupOf(getEntriesByCategory, c)[j])})
    /\ \A k \in 1..Len(ret.keys) : \A j \in 1..Len(ret.vals[k]) :
         ~isTutorial(ret.vals[k][j])

C9_Witness ==
  /\ op = "getPairingsByCategory"
  /\ GroupOf(getEntriesByCategory, "Other") # <<>>
  /\ GroupOf(ret, "Other") = <<>>
  /\ Len(GroupOf(ret, "Frameworks & Libraries")) = 2

SearchOps == {"jjGit.searchEntries", "zioCats.searchEntries", "tmux.searchEntries"}

\* C10: searchEntries(rows, "") returns exactly rows, for glossary and
\* cheat-sheet rows alike.
C10_EmptyQueryIdentity ==
  (op \in SearchOps /\ query = <<>>) => ret = rows

C10_Witness ==
  /\ op = "jjGit.searchEntries"
  /\ query = <<>>
  /\ Len(rows) > 1
  /\ ret = rows

\* what the search operation named o returns for rows r and query q
SearchOf(o, r, q) ==
  CASE o = "jjGit.searchEntries"   -> jjGit_searchEntries(r, q)
    [] o = "zioCats.searchEntries" -> zioCats_searchEntries(r, q)
    [] o = "tmux.searchEntries"    -> tmux_searchEntries(r, q)

\* C11: the case of the query never changes the result: searchEntries(rows, q)
\* returns the rows searchEntries(rows, q.toUpperCase()) returns, and the rows
\* the lower-cased query returns.
C11_QueryCaseIrrelevant ==
  op \in SearchOps =>
    /\ ret = SearchOf(op, rows, toUpperCase(query))
    /\ ret = SearchOf(op, rows, toLowerCase(query))

\* Unicode default caseless matching compares full case foldings: A-Z fold to
\* a-z and the sharp s folds to "ss".
FoldOfChar(c) == IF c = SharpS THEN <<"s", "s">> ELSE LowerOfChar(c)

RECURSIVE CaseFold(_)
CaseFold(str) ==
  IF Len(str) = 0 THEN <<>>
  ELSE IF Len(str) = 1 THEN FoldOfChar(str[1])
  ELSE CaseFold(SubSeq(str, 1, Len(str) \div 2))
       \o CaseFold(SubSeq(str, Len(str) \div 2 + 1, Len(str)))

\* text contains q as a case-insensitive substring
ContainsIgnoringCase(text, q) == includes(CaseFold(text), CaseFold(q))

\* a row has a text field that contains q case-insensitively: source command,
\* target command or note of a glossary row; command, description, or the note
\* when it is present and not empty, of a cheat-sheet row
RowContains(row, q) ==
  IF "fromCommand" \in DOMAIN row
  THEN \/ ContainsIgnoringCase(row.fromCommand, q)
       \/ ContainsIgnoringCase(row.toCommand, q)
       \/ ContainsIgnoringCase(row.note, q)
  ELSE \/ ContainsIgnoringCase(row.command, q)
       \/ ContainsIgnoringCase(row.description, q)
       \/ /\ "note" \in DOMAIN row
          /\ row.note # <<>>
          /\ ContainsIgnoringCase(row.note, q)

\* C12: for a non-empty query searchEntries returns, in table order, exactly
\* the rows one of whose text fields contains the query as a case-insensitive
\* substring; an absent or empty note never matches.
C12_ExactlyTheMatchingRows ==
  (op \in SearchOps /\ query # <<>>) =>
    ret = SelectedAt(rows, {i \in 1..Len(rows) : RowContains(rows[i], query)})

\* C12 for the queries whose case folding is their lower case (all but the
\* sharp s): the code keeps exactly the matching rows
C12_ForLowerCaseFoldedQueries ==
  (op \in SearchOps /\ query # <<>> /\ CaseFold(query) = toLowerCase(query)) =>
    ret = SelectedAt(rows, {i \in 1..Len(rows) : RowContains(rows[i], query)})

\* C11 for those queries
C11_ForLowerCaseFoldedQueries ==
  (op \in SearchOps /\ CaseFold(query) = toLowerCase(query)) =>
    /\ ret = SearchOf(op, rows, toUpperCase(query))
    /\ ret = SearchOf(op, rows, toLowerCase(query))

(***************************************************************************)
(* filterByCategory                                                        *)
(***************************************************************************)

\* filterByCategory with the test negated
jjGit_filterByCategory_Complement(entries, category) ==
  ArrayFilter(entries, [i \in 1..Len(entries) |-> entries[i].category # category])

\* filterByCategory of the jj/git glossary module
jjGit_filterByCategory(entries, category) ==
  ArrayFilter(entries, [i \in 1..Len(entries) |-> entries[i].category = category])

\* filterByCategory of the ZIO/Cats glossary module
zioCats_filterByCategory(entries, category) ==
  ArrayFilter(entries, [i \in 1..Len(entries) |-> entries[i].category = category])

\* filterByCategory stopping at the first row of the category
tmux_filterByCategory_FirstOnly(entries, category) ==
  ArrayFilter(entries,
              [i \in 1..Len(entries) |->
                 /\ entries[i].category = category
                 /\ \A j \in 1..(i - 1) : entries[j].category # category])

\* filterByCategory of the tmux cheat-sheet module
tmux_filterByCategory(entries, category) ==
  ArrayFilter(entries, [i \in 1..Len(entries) |-> entries[i].category = category])

\* longest row sequence a caller passes to filterByCategory
MaxFilterRows == 3

\* categories of the rows passed to filterByCategory
GlossaryFilterCategories == {"BASICS", "COMMITS"}

CheatSheetFilterCategories == {"SESSIONS", "PANES"}

\* category arguments: the categories of the rows, a category no row has, and
\* a string that is no category
CategoryInputs ==
  GlossaryFilterCategories \cup CheatSheetFilterCategories \cup {"UNDO", ""}

GlossaryFilterRowsAt(i) ==
  [id : {ToString(i)}, category : GlossaryFilterCategories,
   fromCommand : {<<"a", "B">>}, toCommand : {<<"c">>}, note : {<<>>}]

CheatSheetFilterRowsAt(i) ==
  [id : {ToString(i)}, category : CheatSheetFilterCategories,
   command : {<<"a", "B">>}, description : {<<"c">>}]

RECURSIVE GlossaryFilterTablesOfLen(_)
GlossaryFilterTablesOfLen(n) ==
  IF n = 0 THEN {<<>>}
  ELSE {Append(t, r) : t \in GlossaryFilterTablesOfLen(n - 1),
                       r \in GlossaryFilterRowsAt(n)}

RECURSIVE CheatSheetFilterTablesOfLen(_)
CheatSheetFilterTablesOfLen(n) ==
  IF n = 0 THEN {<<>>}
  ELSE {Append(t, r) : t \in CheatSheetFilterTablesOfLen(n - 1),
                       r \in CheatSheetFilterRowsAt(n)}

FilterTables ==
  UNION {GlossaryFilterTablesOfLen(n) \cup CheatSheetFilterTablesOfLen(n) :
           n \in 0..MaxFilterRows}

InitFilter ==
  /\ Loaded
  /\ TablesLoaded
  /\ slug = ""
  /\ rows \in FilterTables
  /\ query = <<>>
  /\ categoryArg \in CategoryInputs

JjGitFilterByCategory ==
  /\ IsGlossaryTable(rows)
  /\ op' = "jjGit.filterByCategory"
  /\ ret' = jjGit_filterByCategory(rows, categoryArg)
  /\ alias' = "fresh"
  /\ UNCHANGED inputs

ZioCatsFilterByCategory ==
  /\ IsGlossaryTable(rows)
  /\ op' = "zioCats.filterByCategory"
  /\ ret' = zioCats_filterByCategory(rows, categoryArg)
  /\ alias' = "fresh"
  /\ UNCHANGED inputs

TmuxFilterByCategory ==
  /\ IsCheatSheetTable(rows)
  /\ op' = "tmux.filterByCategory"
  /\ ret' = tmux_filterByCategory(rows, categoryArg)
  /\ alias' = "fresh"
  /\ UNCHANGED inputs

NextFilter ==
  \/ JjGitFilterByCategory
  \/ ZioCatsFilterByCategory
  \/ TmuxFilterByCategory

SpecFilter == InitFilter /\ [][NextFilter]_vars

FilterOps ==
  {"jjGit.filterByCategory", "zioCats.filterByCategory", "tmux.filterByCategory"}

\* positions of the rows of category c
PositionsOfCategory(seq, c) == {i \in 1..Len(seq) : seq[i].category = c}

\* C13: filterByCategory(rows, c) returns exactly the rows whose category is c,
\* all of them and only them, in their original relative order; when no row
\* has category c the result is the empty sequence.
C13_FilterByCategory ==
  op \in FilterOps =>
    /\ ret = SelectedAt(rows, PositionsOfCategory(rows, categoryArg))
    /\ Len(ret) = Cardinality(PositionsOfCategory(rows, categoryArg))
    /\ \A k \in 1..Len(ret) : ret[k].category = categoryArg
    /\ (PositionsOfCategory(rows, categoryArg) = {}) => ret = <<>>

\* a row of another category between two rows of the category is dropped and
\* the two are kept in order
C13_Witness ==
  /\ op = "jjGit.filterByCategory"
  /\ Len(rows) = 3
  /\ PositionsOfCategory(rows, categoryArg) = {1, 3}
  /\ ret = <<rows[1], rows[3]>>

(***************************************************************************)
(* getCategories                                                           *)
(***************************************************************************)

\* the closed category enumeration of each module
jjGit_GlossaryCategory ==
  {"BASICS", "COMMITS", "HISTORY", "BRANCHES", "REMOTES", "UNDO", "CONFLICTS",
   "ADVANCED"}

zioCats_GlossaryCategory ==
  {"BASICS", "ERRORS", "DEPENDENCIES", "CONCURRENCY", "STREAMING", "STM",
   "CONFIG", "HTTP", "DATABASE", "RUNTIME", "INTEROP"}

tmux_CheatSheetCategory ==
  {"SESSIONS", "WINDOWS", "PANES", "NAVIGATION", "COPY_MODE", "CONFIG"}

\* an order array from which UNDO was left out
jjGit_categoryOrder_WithoutUndo ==
  <<"BASICS", "COMMITS", "HISTORY", "BRANCHES", "REMOTES", "CONFLICTS",
    "ADVANCED">>

jjGit_categoryOrder ==
  <<"BASICS", "COMMITS", "HISTORY", "BRANCHES", "REMOTES", "UNDO", "CONFLICTS",
    "ADVANCED">>

zioCats_categoryOrder ==
  <<"BASICS", "ERRORS", "DEPENDENCIES", "CONCURRENCY", "STREAMING", "STM",
    "CONFIG", "HTTP", "DATABASE", "RUNTIME", "INTEROP">>

tmux_categoryOrder ==
  <<"SESSIONS", "WINDOWS", "PANES", "NAVIGATION", "COPY_MODE", "CONFIG">>

\* the Set built by `for (const entry of table) categories.add(entry.category)`
CategorySetOf(table) == {table[i].category : i \in 1..Len(table)}

\* categoryOrder.filter((cat) => categories.has(cat))
FilterOrder(categoryOrder, categories) ==
  ArrayFilter(categoryOrder,
              [i \in 1..Len(categoryOrder) |-> categoryOrder[i] \in categories])

\* positions of the rows that are the first of their category
FirstOfCategory(table) ==
  {i \in 1..Len(table) : \A j \in 1..(i - 1) : table[j].category # table[i].category}

\* getCategories listing the categories in the order the rows declare them
jjGit_getCategories_FirstOccurrence ==
  [k \in 1..Cardinality(FirstOfCategory(jjGitGlossary)) |->
     jjGitGlossary[KthOf(FirstOfCategory(jjGitGlossary), k)].category]

\* getCategories of the jj/git glossary module
jjGit_getCategories == FilterOrder(jjGit_categoryOrder, CategorySetOf(jjGitGlossary))

\* getCategories of the ZIO/Cats glossary module
zioCats_getCategories ==
  FilterOrder(zioCats_categoryOrder, CategorySetOf(zioCatsGlossary))

\* getCategories of the tmux cheat-sheet module
tmux_getCategories == FilterOrder(tmux_categoryOrder, CategorySetOf(tmuxCheatSheet))

\* longest table of a content revision
MaxRevisionRows == 2

GlossaryRevisionRowsAt(i, categorySet) ==
  [id : {ToString(i)}, category : categorySet,
   fromCommand : {<<"a", "B">>}, toCommand : {<<"c">>}, note : {<<>>}]

CheatSheetRevisionRowsAt(i, categorySet) ==
  [id : {ToString(i)}, category : categorySet,
   command : {<<"a", "B">>}, description : {<<"c">>}, note : {<<>>}]

RECURSIVE GlossaryRevisionsOfLen(_, _)
GlossaryRevisionsOfLen(n, categorySet) ==
  IF n = 0 THEN {<<>>}
  ELSE {Append(t, r) : t \in GlossaryRevisionsOfLen(n - 1, categorySet),
                       r \in GlossaryRevisionRowsAt(n, categorySet)}

RECURSIVE CheatSheetRevisionsOfLen(_, _)
CheatSheetRevisionsOfLen(n, categorySet) ==
  IF n = 0 THEN {<<>>}
  ELSE {Append(t, r) : t \in CheatSheetRevisionsOfLen(n - 1, categorySet),
                       r \in CheatSheetRevisionRowsAt(n, categorySet)}

\* the tables of the content revisions: every table of up to MaxRevisionRows
\* rows over the module's categories
JjGitRevisions ==
  UNION {GlossaryRevisionsOfLen(n, jjGit_GlossaryCategory) : n \in 0..MaxRevisionRows}

ZioCatsRevisions ==
  UNION {GlossaryRevisionsOfLen(n, zioCats_GlossaryCategory) : n \in 0..MaxRevisionRows}

TmuxRevisions ==
  UNION {CheatSheetRevisionsOfLen(n, tmux_CheatSheetCategory) : n \in 0..MaxRevisionRows}

\* the shipped tables, or one of them replaced by a content revision
InitCategories ==
  /\ Loaded
  /\ slug = ""
  /\ rows = <<>>
  /\ query = <<>>
  /\ categoryArg = ""
  /\ effectZioGlossary = effectZioGlossaryData
  /\ \/ /\ jjGitGlossary \in JjGitRevisions \cup {jjGitGlossaryData}
        /\ zioCatsGlossary = zioCatsGlossaryData
        /\ tmuxCheatSheet = tmuxCheatSheetData
     \/ /\ jjGitGlossary = jjGitGlossaryData
        /\ zioCatsGlossary \in ZioCatsRevisions
        /\ tmuxCheatSheet = tmuxCheatSheetData
     \/ /\ jjGitGlossary = jjGitGlossaryData
        /\ zioCatsGlossary = zioCatsGlossaryData
        /\ tmuxCheatSheet \in TmuxRevisions

JjGitGetCategories ==
  /\ op' = "jjGit.getCategories"
  /\ ret' = jjGit_getCategories
  /\ alias' = "fresh"
  /\ UNCHANGED inputs

ZioCatsGetCategories ==
  /\ op' = "zioCats.getCategories"
  /\ ret' = zioCats_getCategories
  /\ alias' = "fresh"
  /\ UNCHANGED inputs

TmuxGetCategories ==
  /\ op' = "tmux.getCategories"
  /\ ret' = tmux_getCategories
  /\ alias' = "fresh"
  /\ UNCHANGED inputs

NextCategories ==
  \/ JjGitGetCategories
  \/ ZioCatsGetCategories
  \/ TmuxGetCategories

SpecCategories == InitCategories /\ [][NextCategories]_vars

CategoryOps == {"jjGit.getCategories", "zioCats.getCategories", "tmux.getCategories"}

\* the table getCategories of operation o reads
TableOf(o) ==
  CASE o = "jjGit.getCategories"   -> jjGitGlossary
    [] o = "zioCats.getCategories" -> zioCatsGlossary
    [] o = "tmux.getCategories"    -> tmuxCheatSheet

\* the canonical sequence of that table
CanonicalOf(o) ==
  CASE o = "jjGit.getCategories"   -> jjGit_categoryOrder
    [] o = "zioCats.getCategories" -> zioCats_categoryOrder
    [] o = "tmux.getCategories"    -> tmux_categoryOrder

\* position of category c in the canonical sequence
RankIn(categoryOrder, c) ==
  CHOOSE k \in 1..Len(categoryOrder) : categoryOrder[k] = c

\* C14: getCategories() returns each category that occurs in a row of the table
\* exactly once, omits the canonical categories that occur in no row, and
\* lists them in the table's canonical sequence, whatever the order of the
\* rows, of first occurrence, or of the alphabet.
C14_GetCategories ==
  op \in CategoryOps =>
    /\ \A i \in 1..Len(TableOf(op)) :
         Cardinality({k \in 1..Len(ret) : ret[k] = TableOf(op)[i].category}) = 1
    /\ \A k \in 1..Len(ret) :
         \E i \in 1..Len(TableOf(op)) : TableOf(op)[i].category = ret[k]
    /\ \A k \in 1..Len(ret) : ret[k] \in Range(CanonicalOf(op))
    /\ \A k \in 1..Len(ret) : \A l \in (k + 1)..Len(ret) :
         RankIn(CanonicalOf(op), ret[k]) < RankIn(CanonicalOf(op), ret[l])

\* rows declared BRANCHES then HISTORY are listed HISTORY then BRANCHES: neither
\* first occurrence nor alphabetical, and the six other categories are omitted
C14_Witness ==
  /\ op = "jjGit.getCategories"
  /\ Len(jjGitGlossary) = 2
  /\ jjGitGlossary[1].category = "BRANCHES"
  /\ jjGitGlossary[2].category = "HISTORY"
  /\ ret = <<"HISTORY", "BRANCHES">>

(***************************************************************************)
(* Effect/ZIO glossary accessors                                           *)
(***************************************************************************)

\* the characters of each member of the Effect/ZIO GlossaryCategory
effectZio_categoryText ==
  [c \in {"CORE", "ERRORS", "COMPOSITION", "SERVICES", "LAYERS", "CONCURRENCY", "STREAMING", "SCHEMA", "HTTP", "SQL"} |->
     CASE c = "CORE" -> <<"C", "O", "R", "E">>
       [] c = "ERRORS" -> <<"E", "R", "R", "O", "R", "S">>
       [] c = "COMPOSITION" -> <<"C", "O", "M", "P", "O", "S", "I", "T", "I", "O", "N">>
       [] c = "SERVICES" -> <<"S", "E", "R", "V", "I", "C", "E", "S">>
       [] c = "LAYERS" -> <<"L", "A", "Y", "E", "R", "S">>
       [] c = "CONCURRENCY" -> <<"C", "O", "N", "C", "U", "R", "R", "E", "N", "C", "Y">>
       [] c = "STREAMING" -> <<"S", "T", "R", "E", "A", "M", "I", "N", "G">>
       [] c = "SCHEMA" -> <<"S", "C", "H", "E", "M", "A">>
       [] c = "HTTP" -> <<"H", "T", "T", "P">>
       [] c = "SQL" -> <<"S", "Q", "L">>]

\* getEffectZioGlossary(): return effectZioGlossary
getEffectZioGlossary == effectZioGlossary

\* for (const entry of effectZioGlossary) { ... }, over the positions lo..hi:
\* the iterations of the first half, then those of the second half on what
\* the first half built
RECURSIVE EffectZioLoop(_, _, _)
EffectZioLoop(lo, hi, grouped) ==
  IF lo > hi THEN grouped
  ELSE IF lo = hi
  THEN GroupPush(grouped, effectZioGlossary[lo].category, effectZioGlossary[lo])
  ELSE LET firstHalf == EffectZioLoop(lo, (lo + hi) \div 2, grouped)
       IN  CASE Len(firstHalf.keys) > 0 ->
                  EffectZioLoop((lo + hi) \div 2 + 1, hi, firstHalf)

getEffectZioGlossaryByCategory ==
  EffectZioLoop(1, Len(effectZioGlossary), EmptyGrouped)

\* the filter callback of searchEffectZioGlossary
EffectZioMatches(entry, lowerQuery) ==
  \/ includes(toLowerCase(entry.fromCommand), lowerQuery)
  \/ includes(toLowerCase(entry.toCommand), lowerQuery)
  \/ includes(toLowerCase(effectZio_categoryText[entry.category]), lowerQuery)
  \/ includes(toLowerCase(entry.note), lowerQuery)

searchEffectZioGlossary(q) ==
  LET lowerQuery == toLowerCase(q)
  IN  ArrayFilter(effectZioGlossary,
                  [i \in 1..Len(effectZioGlossary) |->
                     EffectZioMatches(effectZioGlossary[i], lowerQuery)])

(***************************************************************************)
(* All public operations over the shipped registry and tables              *)
(***************************************************************************)

\* queries a caller passes over the shipped tables
ShippedQueries ==
  {<<>>, <<"c", "o", "m", "m", "i", "t">>,
   <<"z", "z", "z", "z", "z", "z", "z">>,
   <<"c", "o", "r", "e">>,
   <<"s", "e", "s", "s", "i", "o", "n">>,
   <<"f", "i", "b", "e", "r">>}

\* category arguments a caller passes over the shipped tables
ShippedCategoryInputs == {"BASICS", "SESSIONS", "CORE", "NOPE"}

\* a caller of the registry, a caller searching an exported table, or a caller
\* filtering an exported table
InitShipped ==
  /\ Loaded
  /\ TablesLoaded
  /\ \/ /\ slug \in SlugInputs
        /\ rows = <<>>
        /\ query = <<>>
        /\ categoryArg = ""
     \/ /\ slug = ""
        /\ rows \in {jjGitGlossary, zioCatsGlossary, tmuxCheatSheet, effectZioGlossary}
        /\ \/ query \in ShippedQueries /\ categoryArg = ""
           \/ query = <<>> /\ categoryArg \in ShippedCategoryInputs

GetEffectZioGlossary ==
  /\ op' = "getEffectZioGlossary"
  /\ ret' = getEffectZioGlossary
  /\ alias' = "effectZioGlossary"
  /\ UNCHANGED inputs

GetEffectZioGlossaryByCategory ==
  /\ op' = "getEffectZioGlossaryByCategory"
  /\ ret' = getEffectZioGlossaryByCategory
  /\ alias' = "fresh"
  /\ UNCHANGED inputs

SearchEffectZioGlossary ==
  /\ op' = "searchEffectZioGlossary"
  /\ ret' = searchEffectZioGlossary(query)
  /\ alias' = "fresh"
  /\ UNCHANGED inputs

NextShipped ==
  \/ GetEntry
  \/ GetPairing
  \/ GetPublishedEntries
  \/ GetPublishedPairings
  \/ GetEntriesByCategory
  \/ GetPairingsByCategory
  \/ IsValidEntrySlug
  \/ IsValidPairingSlug
  \/ JjGitSearchEntries
  \/ ZioCatsSearchEntries
  \/ TmuxSearchEntries
  \/ JjGitFilterByCategory
  \/ ZioCatsFilterByCategory
  \/ TmuxFilterByCategory
  \/ JjGitGetCategories
  \/ ZioCatsGetCategories
  \/ TmuxGetCategories
  \/ GetEffectZioGlossary
  \/ GetEffectZioGlossaryByCategory
  \/ SearchEffectZioGlossary

SpecShipped == InitShipped /\ [][NextShipped]_vars

\* C15: the Effect/ZIO table's search returns, for every query, exactly the
\* rows the glossary searchEntries gives on the Effect/ZIO rows: the rows whose
\* source command, target command or note contains the query
\* case-insensitively, and no row that matches on another field.
C15_EffectZioSearchContract ==
  op = "searchEffectZioGlossary" =>
    /\ ret = zioCats_searchEntries(effectZioGlossary, query)
    /\ \A k \in 1..Len(ret) : GlossaryMatches(ret[k], toLowerCase(query))

\* C16: after any sequence and interleaving of calls to the public operations
\* the registry, its legacy view and every row table are what module
\* evaluation made them: same elements, same order.
C16_SnapshotUnchanged ==
  /\ toolEntries = ToolEntriesData
  /\ toolPairings = toolPairingsOf(ToolEntriesData)
  /\ jjGitGlossary = jjGitGlossaryData
  /\ zioCatsGlossary = zioCatsGlossaryData
  /\ tmuxCheatSheet = tmuxCheatSheetData
  /\ effectZioGlossary = effectZioGlossaryData

\* a grouping operation, which pushes rows into arrays, has run over the
\* whole Effect/ZIO table and the table is unchanged
C16_Witness ==
  /\ op = "getEffectZioGlossaryByCategory"
  /\ Len(ret.keys) = 10
  /\ effectZioGlossary = effectZioGlossaryData
  /\ toolEntries = ToolEntriesData

(***************************************************************************)
(* A caller that writes to a returned array                                *)
(***************************************************************************)

\* The readonly modifier of the return types is erased at compile time and no
\* array is frozen, so a caller can write to an array it was handed.  The
\* module tables are pairwise different in content, and stay so, hence two
\* names hold the same array exactly when they hold the same value.

\* most rows callers remove
MaxCallerWrites == 1

\* rows removed from the module tables so far
RemovedRows ==
  (Len(jjGitGlossaryData) - Len(jjGitGlossary))
  + (Len(zioCatsGlossaryData) - Len(zioCatsGlossary))
  + (Len(tmuxCheatSheetData) - Len(tmuxCheatSheet))
  + (Len(effectZioGlossaryData) - Len(effectZioGlossary))

\* array after pop()
Popped(arr) == SubSeq(arr, 1, Len(arr) - 1)

\* array held under a name after the caller pops the returned array
AfterPop(held, returned) == IF held = returned THEN Popped(returned) ELSE held

\* a caller searching an exported table, or the array of getEffectZioGlossary()
InitCaller ==
  /\ Loaded
  /\ TablesLoaded
  /\ slug = ""
  /\ rows \in {jjGitGlossary, zioCatsGlossary, tmuxCheatSheet, effectZioGlossary}
  /\ query \in {<<>>, <<"c", "o", "r", "e">>, <<"z", "z", "z", "z", "z", "z", "z">>}
  /\ categoryArg = ""

\* (ret as unknown[]).pop() on a returned array that is not a new one
CallerPops ==
  /\ alias \notin {"none", "fresh"}
  /\ Len(ret) > 0
  /\ RemovedRows < MaxCallerWrites
  /\ op' = "caller.pop"
  /\ ret' = Popped(ret)
  /\ rows' = AfterPop(rows, ret)
  /\ jjGitGlossary' = AfterPop(jjGitGlossary, ret)
  /\ zioCatsGlossary' = AfterPop(zioCatsGlossary, ret)
  /\ tmuxCheatSheet' = AfterPop(tmuxCheatSheet, ret)
  /\ effectZioGlossary' = AfterPop(effectZioGlossary, ret)
  /\ UNCHANGED <<toolEntries, toolPairings, slug, query, categoryArg, alias>>

NextCaller ==
  \/ JjGitSearchEntries
  \/ ZioCatsSearchEntries
  \/ TmuxSearchEntries
  \/ GetEffectZioGlossary
  \/ SearchEffectZioGlossary
  \/ GetPublishedEntries
  \/ CallerPops

SpecCaller == InitCaller /\ [][NextCaller]_vars

\* C17: no query hands out the underlying container, so a caller changing a
\* returned sequence cannot change what later queries read: the row tables
\* stay what module evaluation made them.
C17_CallerCannotChangeTables ==
  /\ jjGitGlossary = jjGitGlossaryData
  /\ zioCatsGlossary = zioCatsGlossaryData
  /\ tmuxCheatSheet = tmuxCheatSheetData
  /\ effectZioGlossary = effectZioGlossaryData

\* positions of the registry entries with slug s
CandidatesFor(s) == {i \in 1..Len(toolEntries) : toolEntries[i].slug = s}

\* C18: no two entries of the registry share a slug, whether comparison or
\* single-tool entries; hence getEntry(s) has at most one candidate for every s.
C18_SlugsUnique ==
  /\ \A i \in 1..Len(toolEntries) : \A j \in 1..Len(toolEntries) :
       toolEntries[i].slug = toolEntries[j].slug => i = j
  /\ \A s \in SlugInputs : Cardinality(CandidatesFor(s)) <= 1
  /\ op = "getEntry" => Cardinality(CandidatesFor(slug)) <= 1

\* getEntry has found the single-tool entry, its only candidate, in a registry
\* that also holds comparison entries
C18_Witness ==
  /\ op = "getEntry"
  /\ ret # null
  /\ isTutorial(ret)
  /\ Cardinality(CandidatesFor(slug)) = 1
  /\ \E i \in 1..Len(toolEntries) : isPairing(toolEntries[i])

\* no two rows of seq have the same id
IdsDistinct(seq) ==
  \A i \in 1..Len(seq) : \A j \in 1..Len(seq) : seq[i].id = seq[j].id => i = j

\* the operations that return rows of a table
RowOps ==
  SearchOps \cup FilterOps \cup {"searchEffectZioGlossary", "getEffectZioGlossary"}

\* C19: within each row table no two rows have the same id, so every result of
\* filterByCategory or searchEntries over a table has pairwise distinct ids.
C19_IdsUnique ==
  /\ IdsDistinct(jjGitGlossary)
  /\ IdsDistinct(zioCatsGlossary)
  /\ IdsDistinct(tmuxCheatSheet)
  /\ IdsDistinct(effectZioGlossary)
  /\ op \in RowOps => IdsDistinct(ret)

\* a search over an exported table has kept several rows and dropped others
C19_Witness ==
  /\ op \in SearchOps
  /\ query # <<>>
  /\ rows \in {jjGitGlossary, zioCatsGlossary, tmuxCheatSheet}
  /\ Len(ret) > 1
  /\ Len(ret) < Len(rows)
  /\ IdsDistinct(ret)

\* a query no row of a shipped table contains
NoMatchQuery == <<"z", "z", "z", "z", "z", "z", "z">>

\* C20: no public operation has an error outcome: for every string argument,
\* the empty string and unknown slugs and categories included, a lookup
\* returns an entry or null, a validity test true or false, and a filter or
\* search a sequence, which is empty when nothing matches.
C20_NoErrorOutcome ==
  /\ op \in {"getEntry", "getPairing"} =>
       /\ ret # Raised
       /\ ret = null \/ \E i \in 1..Len(toolEntries) : ret = toolEntries[i]
       /\ CandidatesFor(slug) = {} => ret = null
  /\ op \in {"isValidEntrySlug", "isValidPairingSlug"} =>
       /\ ret \in BOOLEAN
       /\ CandidatesFor(slug) = {} => ret = FALSE
  /\ op \in SearchOps \cup FilterOps \cup {"searchEffectZioGlossary"} =>
       /\ ret \in Seq(Range(rows) \cup Range(effectZioGlossary))
       /\ (op \notin FilterOps /\ query = NoMatchQuery) => ret = <<>>
       /\ (op \in FilterOps /\ PositionsOfCategory(rows, categoryArg) = {}) =>
            ret = <<>>

\* the lookup of an unknown slug has returned null
C20_Witness ==
  /\ op = "getEntry"
  /\ slug = "does-not-exist"
  /\ CandidatesFor(slug) = {}
  /\ ret = null

\* positions of the registry entries tagged as comparison entries
TaggedPairing == {i \in 1..Len(toolEntries) : toolEntries[i].mode = "pairing"}

\* C21: every registry entry carries exactly one variant tag: exactly one of
\* isPairing and isTutorial is true of it, an entry tagged as a pairing has
\* from/to descriptors and no tool descriptor, an entry tagged as a tutorial
\* has a tool descriptor and no from/to descriptors; and the legacy operations
\* select by the tag.
C21_OneVariantTag ==
  /\ \A i \in 1..Len(toolEntries) :
       LET entry == toolEntries[i]
       IN  /\ isPairing(entry) # isTutorial(entry)
           /\ isPairing(entry) =>
                {"from", "to"} \subseteq DOMAIN entry /\ "tool" \notin DOMAIN entry
           /\ isTutorial(entry) =>
                "tool" \in DOMAIN entry /\ {"from", "to"} \cap DOMAIN entry = {}
  /\ toolPairings = SelectedAt(toolEntries, TaggedPairing)
  /\ op \in {"getPairing", "isValidPairingSlug"} =>
       ((IF op = "getPairing" THEN ret # null ELSE ret)
          <=> \E i \in TaggedPairing : toolEntries[i].slug = slug)
  /\ op = "getPublishedPairings" =>
       ret = SelectedAt(toolEntries,
                        {i \in TaggedPairing : toolEntries[i].status = "published"})
  /\ op = "getPairingsByCategory" =>
       /\ \A k \in 1..Len(ret.vals) : \A l \in 1..Len(ret.vals[k]) :
            ret.vals[k][l].mode = "pairing"
       /\ \A i \in TaggedPairing :
            Cardinality(Occurrences(ret, toolEntries[i])) = 1

\* the legacy validity test has rejected the slug of the entry tagged as a
\* tutorial, in a registry that holds both variants
C21_Witness ==
  /\ op = "isValidPairingSlug"
  /\ ret = FALSE
  /\ \E i \in 1..Len(toolEntries) :
       /\ toolEntries[i].slug = slug
       /\ isTutorial(toolEntries[i])
       /\ "tool" \in DOMAIN toolEntries[i]
  /\ TaggedPairing # {}

\* C22: getEntry("jj-git") returns an entry with category "Version Control",
\* 12 steps and status "published".
C22_GetEntryJjGit ==
  (op = "getEntry" /\ slug = "jj-git") =>
    /\ ret # null
    /\ ret.category = "Version Control"
    /\ ret.steps = 12
    /\ ret.status = "published"

C22_Witness ==
  /\ op = "getEntry"
  /\ slug = "jj-git"
  /\ ret # null
  /\ ret.slug = "jj-git"

\* C23: on the jj/git glossary table, searchEntries(rows, "commit") contains
\* the row with id "commits-1" and does not contain the row with id "basics-1".
C23_SearchCommit ==
  (/\ op = "jjGit.searchEntries"
   /\ rows = jjGitGlossaryData
   /\ query = <<"c", "o", "m", "m", "i", "t">>) =>
    /\ \E k \in 1..Len(ret) : ret[k].id = "commits-1"
    /\ \A k \in 1..Len(ret) : ret[k].id # "basics-1"

C23_Witness ==
  /\ op = "jjGit.searchEntries"
  /\ rows = jjGitGlossaryData
  /\ rows = jjGitGlossary
  /\ query = <<"c", "o", "m", "m", "i", "t">>
  /\ Len(ret) > 0
  /\ Len(ret) < Len(rows)

\* C24: filterByCategory(tmuxCheatSheet, "SESSIONS") returns exactly 7 rows,
\* all of category "SESSIONS", in table order: sessions-1 through sessions-7.
C24_FilterSessions ==
  (/\ op = "tmux.filterByCategory"
   /\ rows = tmuxCheatSheetData
   /\ categoryArg = "SESSIONS") =>
    /\ Len(ret) = 7
    /\ \A k \in 1..Len(ret) : ret[k].category = "SESSIONS"
    /\ [k \in 1..Len(ret) |-> ret[k].id]
         = <<"sessions-1", "sessions-2", "sessions-3", "sessions-4",
             "sessions-5", "sessions-6", "sessions-7">>
    /\ ret = SubSeq(rows, 1, 7)

C24_Witness ==
  /\ op = "tmux.filterByCategory"
  /\ rows = tmuxCheatSheetData
  /\ rows = tmuxCheatSheet
  /\ categoryArg = "SESSIONS"
  /\ Len(ret) = 7
  /\ Len(rows) > 7

\* C25: on the shipped tables getCategories() returns the complete canonical
\* list: the 11 ZIO/Cats categories, the 8 jj/git categories and the 6 tmux
\* categories, each in its documented order; every canonical category has at
\* least one row.
C25_ShippedCategories ==
  /\ op = "zioCats.getCategories" =>
       ret = <<"BASICS", "ERRORS", "DEPENDENCIES", "CONCURRENCY", "STREAMING",
               "STM", "CONFIG", "HTTP", "DATABASE", "RUNTIME", "INTEROP">>
  /\ op = "jjGit.getCategories" =>
       ret = <<"BASICS", "COMMITS", "HISTORY", "BRANCHES", "REMOTES", "UNDO",
               "CONFLICTS", "ADVANCED">>
  /\ op = "tmux.getCategories" =>
       ret = <<"SESSIONS", "WINDOWS", "PANES", "NAVIGATION", "COPY_MODE",
               "CONFIG">>
  /\ \A k \in 1..Len(zioCats_categoryOrder) :
       \E i \in 1..Len(zioCatsGlossary) :
         zioCatsGlossary[i].category = zioCats_categoryOrder[k]
  /\ \A k \in 1..Len(jjGit_categoryOrder) :
       \E i \in 1..Len(jjGitGlossary) :
         jjGitGlossary[i].category = jjGit_categoryOrder[k]
  /\ \A k \in 1..Len(tmux_categoryOrder) :
       \E i \in 1..Len(tmuxCheatSheet) :
         tmuxCheatSheet[i].category = tmux_categoryOrder[k]

C25_Witness ==
  /\ op = "zioCats.getCategories"
  /\ zioCatsGlossary = zioCatsGlossaryData
  /\ Len(ret) = 11
  /\ ret[6] = "STM"

\* the enumeration of the table getCategories of operation o reads
EnumOf(o) ==
  CASE o = "jjGit.getCategories"   -> jjGit_GlossaryCategory
    [] o = "zioCats.getCategories" -> zioCats_GlossaryCategory
    [] o = "tmux.getCategories"    -> tmux_CheatSheetCategory

\* seq lists every member of S once and nothing else
IsPermutationOf(seq, S) ==
  /\ Range(seq) = S
  /\ Len(seq) = Cardinality(S)

\* C26: for each table with a canonical order array, the array is a
\* permutation of the table's closed category enumeration, every row's
\* category is a member of it, and so getCategories() drops no category that
\* occurs in the rows.
C26_OrderCoversEnum ==
  /\ \A o \in CategoryOps :
       /\ IsPermutationOf(CanonicalOf(o), EnumOf(o))
       /\ \A i \in 1..Len(TableOf(o)) : TableOf(o)[i].category \in EnumOf(o)
       /\ \A i \in 1..Len(TableOf(o)) :
            TableOf(o)[i].category \in Range(CanonicalOf(o))
  /\ op \in CategoryOps =>
       \A i \in 1..Len(TableOf(op)) : TableOf(op)[i].category \in Range(ret)

\* getCategories has listed UNDO for a jj/git table that has a row of it
C26_Witness ==
  /\ op = "jjGit.getCategories"
  /\ \E i \in 1..Len(jjGitGlossary) : jjGitGlossary[i].category = "UNDO"
  /\ Len(jjGitGlossary) <= 2
  /\ "UNDO" \in Range(ret)

\* filterByCategory of the module whose getCategories is operation o
FilterOf(o, entries, category) ==
  CASE o = "jjGit.getCategories"   -> jjGit_filterByCategory(entries, category)
    [] o = "zioCats.getCategories" -> zioCats_filterByCategory(entries, category)
    [] o = "tmux.getCategories"    -> tmux_filterByCategory(entries, category)

\* the groups of the first n categories of a category list, one after another
RECURSIVE ConcatGroups(_, _, _)
ConcatGroups(o, cats, n) ==
  IF n = 0 THEN <<>>
  ELSE ConcatGroups(o, cats, n - 1) \o FilterOf(o, TableOf(o), cats[n])

\* C27: on each shipped table with getCategories, the groups
\* filterByCategory(table, c), c ranging over getCategories(), partition the
\* table: every row is in exactly one group, and the groups concatenated in
\* getCategories() order are the table, row for row.
C27_GroupsRebuildTable ==
  op \in CategoryOps =>
    LET table == TableOf(op)
        groups == [k \in 1..Len(ret) |-> FilterOf(op, table, ret[k])]
    IN  /\ \A i \in 1..Len(table) :
             Cardinality({k \in 1..Len(ret) : table[i] \in Range(groups[k])}) = 1
        /\ ConcatGroups(op, ret, Len(ret)) = table

C27_Witness ==
  /\ op = "tmux.getCategories"
  /\ tmuxCheatSheet = tmuxCheatSheetData
  /\ Len(ret) = 6
  /\ ConcatGroups(op, ret, Len(ret)) = tmuxCheatSheet
  /\ Len(FilterOf(op, tmuxCheatSheet, ret[2])) > 1

\* C28: neither grouping operation returns a category key mapped to an empty
\* group; the keys of getPairingsByCategory() are among those of
\* getEntriesByCategory(); "Other", whose only entry is the single-tool tmux
\* entry, is a key of getEntriesByCategory() and is absent from
\* getPairingsByCategory().
C28_NoEmptyGroup ==
  /\ op \in {"getEntriesByCategory", "getPairingsByCategory"} =>
       \A k \in 1..Len(ret.keys) : Len(ret.vals[k]) > 0
  /\ op = "getPairingsByCategory" =>
       /\ Range(ret.keys) \subseteq Range(getEntriesByCategory.keys)
       /\ ~HasKey(ret, "Other")
       /\ Len(ret.keys) = Len(ret.vals)
  /\ op = "getEntriesByCategory" =>
       /\ Range(getPairingsByCategory.keys) \subseteq Range(ret.keys)
       /\ HasKey(ret, "Other")
       /\ \A l \in 1..Len(Lookup(ret, "Other")) : isTutorial(Lookup(ret, "Other")[l])

C28_Witness ==
  /\ op = "getPairingsByCategory"
  /\ HasKey(getEntriesByCategory, "Other")
  /\ ~HasKey(ret, "Other")
  /\ Len(ret.keys) > 0

\* the rows of a result
RowsOf(result) == Range(result)

\* result keeps rows of seq in the order of seq (the rows of seq are distinct)
IsSubsequenceOf(result, seq) ==
  /\ \A k \in 1..Len(result) : \E i \in 1..Len(seq) : seq[i] = result[k]
  /\ \A k \in 1..Len(result) : \A l \in (k + 1)..Len(result) :
       (CHOOSE i \in 1..Len(seq) : seq[i] = result[k])
         < (CHOOSE i \in 1..Len(seq) : seq[i] = result[l])

\* queries to compare the query of the call with
OtherQueries == (Queries \cup FieldStrings) \ {<<>>}

\* C29: search narrows as the query grows: for non-empty queries q1, q2 with
\* q1 a case-insensitive substring of q2, every row of searchEntries(rows, q2)
\* is a row of searchEntries(rows, q1), and both results are order-preserving
\* subsequences of rows.
C29_SearchNarrows ==
  (op \in SearchOps /\ query # <<>>) =>
    /\ IsSubsequenceOf(ret, rows)
    /\ \A q1 \in OtherQueries :
         ContainsIgnoringCase(query, q1) =>
           RowsOf(ret) \subseteq RowsOf(SearchOf(op, rows, q1))
    /\ \A q2 \in OtherQueries :
         ContainsIgnoringCase(q2, query) =>
           RowsOf(SearchOf(op, rows, q2)) \subseteq RowsOf(ret)

\* C29 for the queries whose case folding is their lower case
C29_ForLowerCaseFoldedQueries ==
  (op \in SearchOps /\ query # <<>> /\ CaseFold(query) = toLowerCase(query)) =>
    /\ IsSubsequenceOf(ret, rows)
    /\ \A q1 \in OtherQueries :
         (CaseFold(q1) = toLowerCase(q1) /\ ContainsIgnoringCase(query, q1)) =>
           RowsOf(ret) \subseteq RowsOf(SearchOf(op, rows, q1))
    /\ \A q2 \in OtherQueries :
         ContainsIgnoringCase(q2, query) =>
           RowsOf(SearchOf(op, rows, q2)) \subseteq RowsOf(ret)

\* positions of the rows one of whose searched fields contains the text
PositionsContaining(seq, text) ==
  {i \in 1..Len(seq) :
     IF "fromCommand" \in DOMAIN seq[i]
     THEN \/ includes(seq[i].fromCommand, text)
          \/ includes(seq[i].toCommand, text)
          \/ includes(seq[i].note, text)
     ELSE \/ includes(seq[i].command, text)
          \/ includes(seq[i].description, text)
          \/ ("note" \in DOMAIN seq[i] /\ includes(seq[i].note, text))}

\* C30: the query is not trimmed: only the zero-length query takes the
\* identity path of searchEntries; a query of one space is an ordinary
\* substring, and the rows none of whose searched fields contain a space are
\* not in the result.
C30_QueryNotTrimmed ==
  op \in SearchOps =>
    /\ alias = "rows" <=> Len(query) = 0
    /\ query = <<" ">> =>
         /\ alias = "fresh"
         /\ ret = SelectedAt(rows, PositionsContaining(rows, <<" ">>))
         /\ \A i \in 1..Len(rows) :
              i \notin PositionsContaining(rows, <<" ">>) =>
                \A k \in 1..Len(ret) : ret[k] # rows[i]

\* a search for one space has kept a row and dropped a row
C30_Witness ==
  /\ op = "jjGit.searchEntries"
  /\ query = <<" ">>
  /\ Len(rows) = 2
  /\ Len(ret) = 1
  /\ PositionsContaining(rows, <<" ">>) # {}

====
